---------------------------- MODULE Spec2Model ----------------------------
(***************************************************************************)
(* Matrix sticker plugin: token resolution, message reconstruction and the *)
(* background catalog-synchronisation scheduler.                           *)
(*                                                                         *)
(* Text is a sequence of one-character strings.  Offsets are 1-based; a    *)
(* match [start, stop) covers text[start] .. text[stop-1].                 *)
(***************************************************************************)
EXTENDS Integers, Sequences, FiniteSets, TLC

(***************************************************************************)
(* Bounds of the explored inputs.                                          *)
(***************************************************************************)
MaxPieces == 3
MaxCap == 2
MaxSaves == 1
MaxTasks == 2
MaxPlatforms == 1
MaxRooms == 1
MaxCmds == 1
MaxChars == 4
MaxSessions == 2
MaxJoined == 2

(***************************************************************************)
(* Characters and strings.                                                 *)
(***************************************************************************)
\* [A-Za-z0-9_] restricted to the characters that occur in the inputs
WordChars == {"a", "x", "y", "z", "w", "X"}

\* [A-Za-z0-9_+\-.]
IsTokenChar(c) == c \in WordChars \cup {"+", "-", "."}

IsSpace(c) == c = " "

LowerChar(c) == IF c = "X" THEN "x" ELSE c

\* str.lower()
Lower(s) == [i \in 1..Len(s) |-> LowerChar(s[i])]

RECURSIVE LStrip(_)
LStrip(s) == IF s # << >> /\ IsSpace(Head(s)) THEN LStrip(Tail(s)) ELSE s

RECURSIVE RStrip(_)
RStrip(s) ==
    IF s # << >> /\ IsSpace(s[Len(s)]) THEN RStrip(SubSeq(s, 1, Len(s) - 1)) ELSE s

\* str.strip()
Strip(s) == RStrip(LStrip(s))

\* str(shortcode or "").strip().lower()
NormalizeLowerOnly(s) == Lower(s)

Normalize(s) == Lower(Strip(s))

\* needle in haystack (substring)
Contains(hay, needle) ==
    \E i \in 1..(Len(hay) - Len(needle) + 1) :
        SubSeq(hay, i, i + Len(needle) - 1) = needle

Member(seq, v) == \E i \in 1..Len(seq) : seq[i] = v

RECURSIVE Flatten(_)
Flatten(ss) == IF ss = << >> THEN << >> ELSE Head(ss) \o Flatten(Tail(ss))

(***************************************************************************)
(* Pattern matcher: STRICT_SHORTCODE_PATTERN / RELAXED_SHORTCODE_PATTERN.  *)
(***************************************************************************)
\* first index >= i whose character is not a token character (Len+1 if none)
RECURSIVE RunEnd(_, _)
RunEnd(text, i) ==
    IF i <= Len(text) /\ IsTokenChar(text[i]) THEN RunEnd(text, i + 1) ELSE i

\* (?<!\\)(?<![A-Za-z0-9_]) at offset i
LookBehindNoEscape(text, i) ==
    i = 1 \/ text[i - 1] \notin WordChars

LookBehind(text, i) ==
    i = 1 \/ (text[i - 1] # "\\" /\ text[i - 1] \notin WordChars)

\* the exclusive end of the match that starts at i, 0 when none starts there
MatchStopPossessive(text, i, strict) ==
    LET j == RunEnd(text, i + 1)
        colon == j <= Len(text) /\ text[j] = ":"
    IN  IF ~(text[i] = ":" /\ LookBehind(text, i) /\ j > i + 1) THEN 0
        ELSE IF strict THEN (IF colon THEN j + 1 ELSE 0)
        ELSE IF colon
             THEN (IF j + 1 > Len(text) \/ ~IsTokenChar(text[j + 1]) THEN j + 1 ELSE 0)
             ELSE j

MatchStop(text, i, strict) ==
    LET j == RunEnd(text, i + 1)
        colon == j <= Len(text) /\ text[j] = ":"
    IN  IF ~(text[i] = ":" /\ LookBehind(text, i) /\ j > i + 1) THEN 0
        ELSE IF strict THEN (IF colon THEN j + 1 ELSE 0)
        ELSE IF colon /\ (j + 1 > Len(text) \/ ~IsTokenChar(text[j + 1]))
             THEN j + 1
             ELSE j

\* pattern.finditer(text): leftmost, non-overlapping matches in order
RECURSIVE FindFrom(_, _, _)
FindFrom(text, i, strict) ==
    IF i > Len(text) THEN << >>
    ELSE LET stop == MatchStop(text, i, strict)
         IN  IF stop = 0 THEN FindFrom(text, i + 1, strict)
             ELSE << [start |-> i, stop |-> stop,
                      name |-> SubSeq(text, i + 1, RunEnd(text, i + 1) - 1)] >>
                  \o FindFrom(text, stop, strict)

FindIter(text, strict) == FindFrom(text, 1, strict)

\* text[a:b] with 1-based a and exclusive b
Slice(text, a, b) == SubSeq(text, a, b - 1)

(***************************************************************************)
(* Catalog store (external) and the shortcode lookup cache.                *)
(* A catalog is a sequence of entries in the store's listing order.        *)
(***************************************************************************)
NoSticker == 0

Entry(id, body, tags) == [id |-> id, body |-> body, tags |-> tags]

EmptyLookup == [k \in {} |-> 0]

\* the cache attribute: None (valid = FALSE) or a dict
NoCache == [valid |-> FALSE, map |-> EmptyLookup]

DictPut(m, k, v) == [x \in DOMAIN m \cup {k} |-> IF x = k THEN v ELSE m[x]]

DictPop(m, k) == [x \in DOMAIN m \ {k} |-> m[x]]

DictGet(m, k) == IF k \in DOMAIN m THEN m[k] ELSE NoSticker

\* storage.list_stickers(limit): the limit (>= 5000) exceeds every catalog here
ListAllStickerMetas(catalog) == catalog

\* storage.get_sticker(id, update_usage=False): the entry's id, or None
GetStorageSticker(catalog, id) ==
    IF \E i \in 1..Len(catalog) : catalog[i].id = id THEN id ELSE NoSticker

\* storage.find_stickers(query, limit): case-insensitive substring search over
\* body and tags, in listing order
RECURSIVE Take(_, _)
Take(seq, n) ==
    IF n = 0 \/ seq = << >> THEN << >> ELSE << Head(seq) >> \o Take(Tail(seq), n - 1)

FuzzyHit(e, query) ==
    \/ Contains(Lower(e.body), Lower(query))
    \/ \E i \in 1..Len(e.tags) : Contains(Lower(e.tags[i]), Lower(query))

FindStickers(catalog, query, limit) ==
    Take(SelectSeq(catalog, LAMBDA e : FuzzyHit(e, query)), limit)

RECURSIVE AddTags(_, _, _)
AddTags(lookup, tags, id) ==
    IF tags = << >> THEN lookup
    ELSE LET tagNorm == Normalize(Head(tags))
         IN  AddTags(IF tagNorm # << >> /\ id # 0 /\ tagNorm \notin DOMAIN lookup
                     THEN DictPut(lookup, tagNorm, id)
                     ELSE lookup,
                     Tail(tags), id)

RECURSIVE BuildFrom(_, _)
BuildFrom(metas, lookup) ==
    IF metas = << >> THEN lookup
    ELSE LET meta == Head(metas)
             body == Normalize(meta.body)
             withBody == IF body # << >> /\ meta.id # 0 /\ body \notin DOMAIN lookup
                         THEN DictPut(lookup, body, meta.id)
                         ELSE lookup
         IN  BuildFrom(Tail(metas), AddTags(withBody, meta.tags, meta.id))

\* the same scan with the listing taken from its end
RECURSIVE Reversed(_)
Reversed(seq) == IF seq = << >> THEN << >> ELSE Append(Reversed(Tail(seq)), Head(seq))

BuildLastWriterWins(catalog) ==
    BuildFrom(Reversed(ListAllStickerMetas(catalog)), EmptyLookup)

\* _build_shortcode_lookup_cache
BuildShortcodeLookupCache(catalog) == BuildFrom(ListAllStickerMetas(catalog), EmptyLookup)

\* the entry's normalised body or one of its normalised tags equals the key
ExactHit(e, key) ==
    \/ Normalize(e.body) = key
    \/ \E i \in 1..Len(e.tags) : Normalize(e.tags[i]) = key

\* _invalidate_sticker_lookup_cache: the cache is dropped and the reload stamp is
\* reset to 0.0, so a reload is due exactly when the clock has passed the interval
InvalidateKeepsCache(cache, past) == [cache |-> cache, due |-> past]

InvalidateStickerLookupCache(cache, past) == [cache |-> NoCache, due |-> past]

\* the loop over the results of storage.find_stickers: the results whose
\* normalised body or one of whose normalised tags equals the key
FallbackTakesAny(results, norm) == results

FallbackMatches(results, norm) == SelectSeq(results, LAMBDA e : ExactHit(e, norm))

\* _find_sticker_by_shortcode: the entry id found (NoSticker for None), the cache
\* it leaves, whether it rebuilt the cache, whether the cached id had no entry
\* any more, and where the entry returned came from
FindStickerByShortcode(cache, catalog, shortcode) ==
    LET norm == Normalize(shortcode)
        lookup == IF cache.valid THEN cache.map ELSE BuildShortcodeLookupCache(catalog)
        cached == DictGet(lookup, norm)
        fresh == IF cached # NoSticker THEN GetStorageSticker(catalog, cached)
                 ELSE NoSticker
        popped == IF cached # NoSticker /\ fresh = NoSticker
                  THEN DictPop(lookup, norm) ELSE lookup
        hits == FallbackMatches(FindStickers(catalog, shortcode, 10), norm)
        stale == cached # NoSticker /\ fresh = NoSticker
    IN  IF norm = << >>
        THEN [sticker |-> NoSticker, cache |-> cache, rebuilt |-> FALSE,
              stale |-> FALSE, via |-> "none"]
        ELSE IF fresh # NoSticker
        THEN [sticker |-> fresh, cache |-> [valid |-> TRUE, map |-> lookup],
              rebuilt |-> ~cache.valid, stale |-> FALSE, via |-> "cache"]
        ELSE IF hits # << >>
        THEN [sticker |-> hits[1].id,
              cache |-> [valid |-> TRUE, map |-> DictPut(popped, norm, hits[1].id)],
              rebuilt |-> ~cache.valid, stale |-> stale, via |-> "fallback"]
        ELSE [sticker |-> NoSticker, cache |-> [valid |-> TRUE, map |-> popped],
              rebuilt |-> ~cache.valid, stale |-> stale, via |-> "none"]

\* _maybe_refresh_storage_index(force=False) as called by _ensure_storage: when
\* the reload interval has elapsed the index is reloaded and the cache dropped
EnsureStorage(cache, due) == IF due THEN NoCache ELSE cache


(***************************************************************************)
(* Message components and the emoji shortcode pass.                        *)
(***************************************************************************)
Plain(text) == [type |-> "Plain", text |-> text, id |-> 0]

\* a catalog entry used as a message component (Matrix)
Sticker(id) == [type |-> "Sticker", text |-> << >>, id |-> id]

\* the image component built from an entry (other platforms)
Image(id) == [type |-> "Image", text |-> << >>, id |-> id]

IsPlain(comp) == comp.type = "Plain"

\* the emoji table, restricted to the names that occur in the inputs
EmojiShortcodes == [k \in {<< "z" >>, << "w" >>} |-> << "#" >>]

\* pattern.sub(_replace, text): known keys become their glyph, the text between
\* matches and the unknown matches are copied
RECURSIVE EmojiSub(_, _, _)
EmojiSub(text, matches, pos) ==
    IF matches = << >> THEN Slice(text, pos, Len(text) + 1)
    ELSE LET m == Head(matches)
             key == Normalize(m.name)
         IN  Slice(text, pos, m.start)
             \o (IF key \in DOMAIN EmojiShortcodes THEN EmojiShortcodes[key]
                 ELSE Slice(text, m.start, m.stop))
             \o EmojiSub(text, Tail(matches), m.stop)

\* str.replace("\\:", ":")
RECURSIVE ReplaceEscapes(_)
ReplaceEscapes(text) ==
    IF text = << >> THEN << >>
    ELSE IF Len(text) >= 2 /\ text[1] = "\\" /\ text[2] = ":"
    THEN << ":" >> \o ReplaceEscapes(SubSeq(text, 3, Len(text)))
    ELSE << Head(text) >> \o ReplaceEscapes(Tail(text))

\* convert_emoji_shortcodes
ConvertEmojiShortcodes(text, enabled, strict) ==
    IF ~enabled \/ ~Member(text, ":") THEN text
    ELSE ReplaceEscapes(EmojiSub(text, FindIter(text, strict), 1))

\* _convert_emoji_shortcodes_in_result: the chain it leaves in the result
ConvertEmojiShortcodesInResult(chain, enabled, strict) ==
    IF ~enabled THEN chain
    ELSE [i \in 1..Len(chain) |->
            IF IsPlain(chain[i])
            THEN Plain(ConvertEmojiShortcodes(chain[i].text, enabled, strict))
            ELSE chain[i]]

(***************************************************************************)
(* Token resolution and substitution for one outgoing message.             *)
(***************************************************************************)
\* _get_max_stickers_per_reply: None (no limit) for a value <= 0
NoLimit == 0

GetMaxStickersPerReply(value) == IF value <= 0 THEN NoLimit ELSE value

\* _resolve_shortcode_sticker_map: each distinct normalised name is resolved
\* once, in order; the lookup cache is threaded through the calls
RECURSIVE ResolveFrom(_, _, _, _)
ResolveFrom(names, resolved, c, cat) ==
    IF names = << >> THEN [map |-> resolved, cache |-> c]
    ELSE LET norm == Normalize(Head(names))
         IN  IF norm = << >> \/ norm \in DOMAIN resolved
             THEN ResolveFrom(Tail(names), resolved, c, cat)
             ELSE LET r == FindStickerByShortcode(c, cat, Head(names))
                  IN  ResolveFrom(Tail(names), DictPut(resolved, norm, r.sticker),
                                  r.cache, cat)

ResolveShortcodeStickerMap(names, c, cat) == ResolveFrom(names, EmptyLookup, c, cat)

MatchNames(matches) == [i \in 1..Len(matches) |-> matches[i].name]

\* the concatenated text of the chain's Plain components
RECURSIVE FullText(_)
FullText(chain) ==
    IF chain = << >> THEN << >>
    ELSE (IF IsPlain(Head(chain)) THEN Head(chain).text ELSE << >>)
         \o FullText(Tail(chain))

\* missing_shortcodes is empty
SomeResolve(matches, resolved) ==
    \E i \in 1..Len(matches) : DictGet(resolved, Normalize(matches[i].name)) # NoSticker

AllResolve(matches, resolved) ==
    \A i \in 1..Len(matches) : DictGet(resolved, Normalize(matches[i].name)) # NoSticker

\* the cap check of one resolved token
WithinLimitNoRepeat(max, id, found) == max = NoLimit \/ Len(found) < max

WithinLimitOffByOne(max, id, found) ==
    max = NoLimit \/ Member(found, id) \/ Len(found) <= max

WithinLimit(max, id, found) ==
    max = NoLimit \/ Member(found, id) \/ Len(found) < max

\* the replacement component of a resolved entry: the entry itself on Matrix,
\* the image built from it elsewhere
Replacement(id, isMatrix) == IF isMatrix THEN Sticker(id) ELSE Image(id)

\* the chain with text[lastEnd : start] appended when that slice is non-empty
WithBeforeDropped(chain, text, lastEnd, start) == chain

WithBefore(chain, text, lastEnd, start) ==
    IF start > lastEnd THEN Append(chain, Plain(Slice(text, lastEnd, start))) ELSE chain

\* the loop state after _build_image_component_from_sticker has returned None
\* for a match: the iteration is left by "continue"
UnbuiltConsumesToken(st, before, stop) ==
    [st EXCEPT !.chain = before, !.lastEnd = stop, !.cmod = TRUE]

Unbuilt(st, before, stop) == st

\* "sticker_id in found_stickers": the dict is keyed by the entry's id
InFoundStickersNever(found, id) == FALSE

InFoundStickers(found, id) == Member(found, id)

\* one iteration of the loop over a component's matches (inline substitution).
\* st: chain built so far, found ids in first-use order, usage marks, offset
\* after the last consumed match, the two modified flags, and the history of
\* the branch each match took
SubstituteMatch(st, text, m, resolved, c) ==
    LET id == DictGet(resolved, Normalize(m.name))
        max == GetMaxStickersPerReply(c.max)
        seen == InFoundStickers(st.found, id)
        note(kind) == Append(st.log, [name |-> m.name, id |-> id, kind |-> kind,
                                      seen |-> seen, used |-> Len(st.found)])
        before == WithBefore(st.chain, text, st.lastEnd, m.start)
    IN  IF id = NoSticker THEN [st EXCEPT !.log = note("unresolved")]
        ELSE IF ~c.isMatrix /\ id \in c.unbuildable
        THEN [Unbuilt(st, before, m.stop) EXCEPT !.log = note("unbuildable")]
        ELSE IF WithinLimit(max, id, st.found)
        THEN IF c.streaming /\ c.isMatrix
             THEN [st EXCEPT !.chain = before,
                             !.found = IF seen THEN @ ELSE Append(@, id),
                             !.modified = TRUE, !.cmod = TRUE, !.lastEnd = m.stop,
                             !.log = note(IF seen THEN "repeat" ELSE "collect")]
             ELSE IF seen
             THEN [st EXCEPT !.chain = before,
                             !.modified = TRUE, !.cmod = TRUE, !.lastEnd = m.stop,
                             !.log = note("repeat")]
             ELSE [st EXCEPT !.chain = Append(before, Replacement(id, c.isMatrix)),
                             !.found = Append(@, id),
                             !.marks = Append(@, id),
                             !.modified = TRUE, !.cmod = TRUE, !.lastEnd = m.stop,
                             !.log = note("attach")]
        ELSE [st EXCEPT !.chain = Append(before, Plain(Slice(text, m.start, m.stop))),
                        !.cmod = TRUE, !.lastEnd = m.stop,
                        !.log = note("literal")]

RECURSIVE SubstituteMatches(_, _, _, _, _)
SubstituteMatches(st, text, matches, resolved, c) ==
    IF matches = << >> THEN st
    ELSE SubstituteMatches(SubstituteMatch(st, text, Head(matches), resolved, c),
                           text, Tail(matches), resolved, c)

\* the body of the loop over the chain's components
SubstituteComponent(st, comp, resolved, c) ==
    LET matches == FindIter(comp.text, c.strict)
        run == SubstituteMatches([st EXCEPT !.lastEnd = 1, !.cmod = FALSE],
                                 comp.text, matches, resolved, c)
        tail == IF run.lastEnd <= Len(comp.text)
                THEN [run EXCEPT !.chain = Append(@, Plain(Slice(comp.text, run.lastEnd,
                                                                 Len(comp.text) + 1))),
                                 !.cmod = TRUE]
                ELSE run
    IN  IF ~IsPlain(comp) \/ matches = << >>
        THEN [st EXCEPT !.chain = Append(@, comp)]
        ELSE IF tail.cmod THEN tail
        ELSE [tail EXCEPT !.chain = Append(@, comp)]

RECURSIVE SubstituteFrom(_, _, _, _)
SubstituteFrom(st, comps, resolved, c) ==
    IF comps = << >> THEN st
    ELSE SubstituteFrom(SubstituteComponent(st, Head(comps), resolved, c),
                        Tail(comps), resolved, c)

\* the inline substitution loop of hook_replace_shortcodes over result.chain
SubstituteChain(chain, resolved, c) ==
    SubstituteFrom([chain |-> << >>, found |-> << >>, marks |-> << >>, lastEnd |-> 1,
                    modified |-> FALSE, cmod |-> FALSE, log |-> << >>],
                   chain, resolved, c)

\* one iteration of the segment loop of _send_split_messages
SegmentMatch(st, text, m, resolved, max) ==
    LET id == DictGet(resolved, Normalize(m.name))
        before == WithBefore(st.segs, text, st.lastEnd, m.start)
        literal == Plain(Slice(text, m.start, m.stop))
    IN  IF id # NoSticker /\ WithinLimit(max, id, st.found)
        THEN [segs |-> Append(before, Sticker(id)),
              found |-> IF Member(st.found, id) THEN st.found ELSE Append(st.found, id),
              lastEnd |-> m.stop]
        ELSE [segs |-> Append(before, literal), found |-> st.found, lastEnd |-> m.stop]

RECURSIVE SegmentMatches(_, _, _, _, _)
SegmentMatches(st, text, matches, resolved, max) ==
    IF matches = << >> THEN st
    ELSE SegmentMatches(SegmentMatch(st, text, Head(matches), resolved, max),
                        text, Tail(matches), resolved, max)

\* the segment list built by _send_split_messages
BuildSegments(text, resolved, c) ==
    LET run == SegmentMatches([segs |-> << >>, found |-> << >>, lastEnd |-> 1], text,
                              FindIter(text, c.strict), resolved,
                              GetMaxStickersPerReply(c.max))
    IN  IF run.lastEnd <= Len(text)
        THEN Append(run.segs, Plain(Slice(text, run.lastEnd, Len(text) + 1)))
        ELSE run.segs

\* the send loop skips a Plain segment whose text is blank
KeepsNonEmptySegment(seg) == ~(IsPlain(seg) /\ seg.text = << >>)

KeepsSegment(seg) == ~(IsPlain(seg) /\ Strip(seg.text) = << >>)

\* the first position >= i of a segment the send loop does not skip
RECURSIVE NextSendable(_, _)
NextSendable(segs, i) ==
    IF i > Len(segs) \/ KeepsSegment(segs[i]) THEN i ELSE NextSendable(segs, i + 1)

(***************************************************************************)
(* State.                                                                  *)
(***************************************************************************)
VARIABLES
    \* catalog store and lookup cache
    catalog,        \* the store's entries, in listing order
    cache,          \* _shortcode_lookup_cache
    reloadDue,      \* now - _last_storage_reload_monotonic >= interval
    clockPast,      \* now >= interval (time.monotonic() against the interval)
    saves,          \* number of entries saved so far
    lastMut,        \* history: the catalog mutation that completed last
    lastRes,        \* history: the resolution that ran right after it
    \* one outgoing message passing through hook_replace_shortcodes
    cfg,            \* the plugin configuration and the event's platform and kind
    reply,          \* history: the chain the event arrived with
    chain,          \* result.chain
    pc,             \* where the handler is: "start", "split", "sending", "follow", "done"
    path,           \* history: the branch the handler took
    segments,       \* the split sender's segment list
    segPos,         \* the segment the split sender sends next
    followUps,      \* the entries a streaming reply sends as follow-ups
    followPos,      \* the follow-up sent next
    sent,           \* history: the event.send calls, in order, with their outcome
    finished,       \* the event's _streaming_finished extra
    used,           \* history: the _mark_sticker_used calls, in order
    subLog,         \* history: the branch each match took in the inline loop
    inFlight,       \* the segments whose event.send was called and has not returned
    walk,           \* the inline loop's locals while it awaits an image build
    \* the background sync scheduler
    autoSync,       \* config matrix_sticker_auto_sync, as read at each call
    syncUser,       \* config matrix_sticker_sync_user_emotes
    ready,          \* the platforms whose client is logged in
    tasks,          \* the asyncio tasks created so far, by slot
    startupHandle,  \* _startup_sync_task (0 for None)
    autoHandle,     \* _auto_sync_task (0 for None)
    holder,         \* the task that holds _auto_sync_lock (0 when unlocked)
    waiters,        \* the tasks waiting in _auto_sync_lock.acquire(), in order
    userSynced,     \* _user_synced_platform_ids
    availReset,     \* _availability_reset_platform_ids
    term,           \* terminate(): its position and the task it awaits
    cmdSyncs,       \* "/sticker sync" commands awaiting sync_room_stickers
    watch,          \* history: what the scheduler's last step did
    \* the commands and tools
    storage,        \* self._storage is not None
    outcome         \* history: the command or tool call handled in the last step

cacheVars == << catalog, cache, reloadDue, clockPast, saves, lastMut, lastRes >>

hookVars == << cfg, reply, chain, pc, path, segments, segPos, followUps, followPos, sent,
               finished, used, subLog, inFlight, walk >>

syncVars == << autoSync, syncUser, ready, tasks, startupHandle, autoHandle, holder,
               waiters, userSynced, availReset, term, cmdSyncs, watch, storage,
               outcome >>

cmdVars == << storage, outcome >>

vars == << cacheVars, hookVars, syncVars >>

\* the inline loop is not suspended
NoWalk == [at |-> "none"]

\* no message is being handled
HookIdle ==
    /\ cfg = [gate |-> "none"]
    /\ reply = << >>
    /\ chain = << >>
    /\ pc = "idle"
    /\ path = "none"
    /\ segments = << >>
    /\ segPos = 0
    /\ followUps = << >>
    /\ followPos = 0
    /\ sent = << >>
    /\ finished = FALSE
    /\ used = << >>
    /\ subLog = << >>
    /\ inFlight = {}
    /\ walk = NoWalk

\* a task slot that holds no task
FreeTask == [kind |-> "none", pc |-> "free", kill |-> "none", woken |-> FALSE,
             plat |-> 0, rooms |-> << >>, polls |-> 0]

\* nothing observed.  entered, raised: the loop task that entered sync-all in
\* the last step, the loop task out of whose sync-all an error came; reset: the
\* call of reset_available made in the last step; okReset, okUser: the sessions
\* for which reset_available, sync_user_stickers has returned; list: what the
\* last get_joined_rooms returned; tried: the positions of list for which
\* sync_room_stickers has been called; due, visited: the sessions that were
\* ready when the lock was last taken, those synced since; over: that pass
\* ended; badReset: the sessions for which reset_available has raised;
\* badRooms: the positions of list for which sync_room_stickers raised;
\* unlisted: the sessions whose get_joined_rooms raised in that pass
NoWatch ==
    [entered |-> 0, raised |-> 0, reset |-> [plat |-> 0, ok |-> FALSE], okReset |-> {},
     okUser |-> {}, list |-> << >>, tried |-> {}, due |-> {}, visited |-> {},
     over |-> FALSE, badReset |-> {}, badRooms |-> {}, unlisted |-> {}]

\* no command or tool call: sub, the subcommand or the tool; admin, raises:
\* what event.is_admin() returns and whether it raises instead; ready: whether
\* _ensure_storage found a store; writes: what the handler went on to change
NoOutcome ==
    [cmd |-> "none", sub |-> "none", admin |-> FALSE, raises |-> FALSE, ready |-> FALSE,
     reply |-> "none", writes |-> {}]

\* the scheduler as __init__ leaves it
SchedulerIdle ==
    /\ tasks = [t \in 1..MaxTasks |-> FreeTask]
    /\ startupHandle = 0
    /\ autoHandle = 0
    /\ holder = 0
    /\ waiters = << >>
    /\ userSynced = {}
    /\ availReset = {}
    /\ term = [pc |-> "idle", task |-> 0]
    /\ cmdSyncs = 0
    /\ watch = NoWatch

\* the plugin as __init__ leaves it when the store's module is importable
SyncIdle == SchedulerIdle /\ storage = TRUE /\ outcome = NoOutcome

\* no platform, no configuration: the scheduler never starts
SyncOff == SyncIdle /\ autoSync = FALSE /\ syncUser = FALSE /\ ready = {}

(***************************************************************************)
(* Commands that mutate the catalog, and resolution (SpecCache).           *)
(***************************************************************************)
Str(c) == << c >>

BodyNames == {Str("x"), Str("w")}

AliasNames == {Str("w"), Str("X")}

RawTokens == {Str("x"), Str("X"), << " ", "w" >>, Str(" ")}

EntryIds == 1..(1 + MaxSaves)

InitTags == {<< >>, << Str("w") >>, << Str("X") >>}

InitCatalogs == {<< >>} \cup {<< Entry(1, Str("x"), t) >> : t \in InitTags}

NoMut == [kind |-> "none", id |-> 0, key |-> << >>]

NoRes == [valid |-> FALSE, token |-> << >>, sticker |-> NoSticker, rebuilt |-> FALSE,
          stale |-> FALSE, via |-> "none"]

\* the mutation recorded for the state after this step: a resolution keeps the
\* mutation it follows, anything after that resolution forgets it
MutAfterOther == IF lastRes.valid THEN NoMut ELSE lastMut

InitCache ==
    /\ catalog \in InitCatalogs
    /\ cache = NoCache
    /\ clockPast \in BOOLEAN
    /\ reloadDue = clockPast
    /\ saves = 0
    /\ lastMut = NoMut
    /\ lastRes = NoRes
    /\ HookIdle
    /\ SyncOff

\* the first catalog position whose id is the given one, 0 when none
IndexOfId(cat, id) ==
    IF \E i \in 1..Len(cat) : cat[i].id = id
    THEN CHOOSE i \in 1..Len(cat) : cat[i].id = id /\ \A j \in 1..(i - 1) : cat[j].id # id
    ELSE 0

RemoveAt(seq, i) == SubSeq(seq, 1, i - 1) \o SubSeq(seq, i + 1, Len(seq))

RemoveFirst(seq, v) ==
    LET i == CHOOSE k \in 1..Len(seq) : seq[k] = v /\ \A j \in 1..(k - 1) : seq[j] # v
    IN  RemoveAt(seq, i)

\* what a command's invalidation leaves, after the _ensure_storage it began with
Invalidated == InvalidateStickerLookupCache(EnsureStorage(cache, reloadDue), clockPast)

\* "/sticker save <name>": storage.save_sticker, then invalidate
CmdSaveSticker(name, ok) ==
    /\ saves < MaxSaves
    /\ IF ok
       THEN /\ catalog' = Append(catalog, Entry(2 + saves, name, << >>))
            /\ cache' = Invalidated.cache
            /\ reloadDue' = Invalidated.due
            /\ saves' = saves + 1
            /\ UNCHANGED clockPast
            /\ lastMut' = [kind |-> "save", id |-> 2 + saves, key |-> Normalize(name)]
       ELSE /\ cache' = EnsureStorage(cache, reloadDue)
            /\ reloadDue' = FALSE
            /\ lastMut' = MutAfterOther
            /\ UNCHANGED << catalog, saves, clockPast >>
    /\ lastRes' = NoRes

\* "/sticker delete <id>": storage.delete_sticker, invalidate when it deleted
CmdDeleteSticker(id) ==
    LET i == IndexOfId(catalog, id)
    IN  /\ IF i # 0
           THEN /\ catalog' = RemoveAt(catalog, i)
                /\ cache' = Invalidated.cache
                /\ reloadDue' = Invalidated.due
                /\ lastMut' = [kind |-> "delete", id |-> id, key |-> << >>]
           ELSE /\ cache' = EnsureStorage(cache, reloadDue)
                /\ reloadDue' = FALSE
                /\ lastMut' = MutAfterOther
                /\ UNCHANGED catalog
        /\ lastRes' = NoRes
        /\ UNCHANGED << saves, clockPast >>

\* "/sticker_alias add <id> <alias>"
CmdAddAlias(id, alias) ==
    LET i == IndexOfId(catalog, id)
    IN  /\ IF i # 0 /\ ~Member(catalog[i].tags, alias)
           THEN /\ catalog' = [catalog EXCEPT ![i].tags = Append(@, alias)]
                /\ cache' = Invalidated.cache
                /\ reloadDue' = Invalidated.due
                /\ lastMut' = [kind |-> "add", id |-> id, key |-> Normalize(alias)]
           ELSE /\ cache' = EnsureStorage(cache, reloadDue)
                /\ reloadDue' = FALSE
                /\ lastMut' = MutAfterOther
                /\ UNCHANGED catalog
        /\ lastRes' = NoRes
        /\ UNCHANGED << saves, clockPast >>

\* "/sticker_alias remove <id> <alias>"
CmdRemoveAlias(id, alias) ==
    LET i == IndexOfId(catalog, id)
    IN  /\ IF i # 0 /\ Member(catalog[i].tags, alias)
           THEN /\ catalog' = [catalog EXCEPT ![i].tags = RemoveFirst(@, alias)]
                /\ cache' = Invalidated.cache
                /\ reloadDue' = Invalidated.due
                /\ lastMut' = [kind |-> "remove", id |-> id, key |-> Normalize(alias)]
           ELSE /\ cache' = EnsureStorage(cache, reloadDue)
                /\ reloadDue' = FALSE
                /\ lastMut' = MutAfterOther
                /\ UNCHANGED catalog
        /\ lastRes' = NoRes
        /\ UNCHANGED << saves, clockPast >>

\* a handler that resolves one token: _ensure_storage, _find_sticker_by_shortcode
Resolve(token) ==
    LET r == FindStickerByShortcode(EnsureStorage(cache, reloadDue), catalog, token)
    IN  /\ cache' = r.cache
        /\ reloadDue' = FALSE
        /\ lastRes' = [valid |-> TRUE, token |-> token, sticker |-> r.sticker,
                       rebuilt |-> r.rebuilt, stale |-> r.stale, via |-> r.via]
        /\ lastMut' = MutAfterOther
        /\ UNCHANGED << catalog, saves, clockPast >>

\* time passes: the clock reaches the interval, or the interval elapses since
\* the last reload (which puts the clock past the interval as well)
Tick(sinceReload) ==
    /\ IF sinceReload THEN ~reloadDue ELSE ~clockPast
    /\ reloadDue' = (reloadDue \/ sinceReload)
    /\ clockPast' = TRUE
    /\ lastMut' = MutAfterOther
    /\ lastRes' = NoRes
    /\ UNCHANGED << catalog, cache, saves >>

NextCache ==
    \/ \E name \in BodyNames, ok \in BOOLEAN :
          CmdSaveSticker(name, ok) /\ UNCHANGED << hookVars, syncVars >>
    \/ \E id \in EntryIds : CmdDeleteSticker(id) /\ UNCHANGED << hookVars, syncVars >>
    \/ \E id \in EntryIds, alias \in AliasNames :
          CmdAddAlias(id, alias) /\ UNCHANGED << hookVars, syncVars >>
    \/ \E id \in EntryIds, alias \in AliasNames :
          CmdRemoveAlias(id, alias) /\ UNCHANGED << hookVars, syncVars >>
    \/ \E token \in RawTokens : Resolve(token) /\ UNCHANGED << hookVars, syncVars >>
    \/ \E sinceReload \in BOOLEAN : Tick(sinceReload) /\ UNCHANGED << hookVars, syncVars >>

SpecCache == InitCache /\ [][NextCache]_vars

\* one write of a room or user sync (syncer.sync_room_stickers or
\* syncer.sync_user_stickers storing a sticker the catalog did not have): the
\* entry is appended; neither _sync_platform_stickers nor "/sticker sync" calls
\* _ensure_storage or _invalidate_sticker_lookup_cache
SyncWritesCatalog(name) ==
    /\ saves < MaxSaves
    /\ catalog' = Append(catalog, Entry(2 + saves, name, << >>))
    /\ saves' = saves + 1
    /\ lastMut' = [kind |-> "sync", id |-> 2 + saves, key |-> Normalize(name)]
    /\ lastRes' = NoRes
    /\ UNCHANGED << cache, reloadDue, clockPast >>

NextCacheSync ==
    \/ NextCache
    \/ \E name \in BodyNames : SyncWritesCatalog(name) /\ UNCHANGED << hookVars, syncVars >>

SpecCacheSync == InitCache /\ [][NextCacheSync]_vars

(***************************************************************************)
(* Resolution against a store that other parties write as well: the        *)
(* platform's syncer adds entries and takes entries away, and the plugin's *)
(* cache is not told (SpecStale).  xy holds x without being x; the alias X *)
(* of w normalises to x.                                                   *)
(***************************************************************************)
StaleCatalog == << Entry(1, << "x", "y" >>, << >>), Entry(2, Str("x"), << >>),
                  Entry(3, Str("w"), << Str("X") >>) >>

StaleTokens == {Str("x"), Str("X"), << " ", "x" >>, Str("w"), << "x", "y" >>}

InitStale ==
    /\ catalog = StaleCatalog
    /\ cache = NoCache
    /\ clockPast \in BOOLEAN
    /\ reloadDue = clockPast
    /\ saves = 2
    /\ lastMut = NoMut
    /\ lastRes = NoRes
    /\ HookIdle
    /\ SyncOff

\* an entry leaves the store without a command of the plugin: nothing calls
\* _invalidate_sticker_lookup_cache
StoreDropsEntry(id) ==
    LET i == IndexOfId(catalog, id)
    IN  /\ i # 0
        /\ catalog' = RemoveAt(catalog, i)
        /\ lastMut' = [kind |-> "drop", id |-> id, key |-> << >>]
        /\ lastRes' = NoRes
        /\ UNCHANGED << cache, reloadDue, clockPast, saves >>

\* a sync stores a sticker named x again, under a new id
StoreAddsEntry ==
    /\ saves < 2 + MaxSaves
    /\ catalog' = Append(catalog, Entry(2 + saves, Str("x"), << >>))
    /\ saves' = saves + 1
    /\ lastMut' = [kind |-> "sync", id |-> 2 + saves, key |-> Str("x")]
    /\ lastRes' = NoRes
    /\ UNCHANGED << cache, reloadDue, clockPast >>

NextStale ==
    \/ \E token \in StaleTokens : Resolve(token) /\ UNCHANGED << hookVars, syncVars >>
    \/ \E id \in 1..(3 + MaxSaves) : StoreDropsEntry(id) /\ UNCHANGED << hookVars, syncVars >>
    \/ StoreAddsEntry /\ UNCHANGED << hookVars, syncVars >>
    \/ \E sinceReload \in BOOLEAN : Tick(sinceReload) /\ UNCHANGED << hookVars, syncVars >>

SpecStale == InitStale /\ [][NextStale]_vars

(***************************************************************************)
(* The cache over a catalog whose names are blank, padded or upper-case:   *)
(* "/sticker_alias add" stores the alias as typed (a quoted blank passes   *)
(* shlex.split), and a sync stores whatever body the pack gives (SpecKeys).*)
(***************************************************************************)
KeyCatalog == << Entry(1, Str(" "), << << " ", "X" >> >>),
                Entry(2, Str("w"), << Str(" ") >>) >>

KeyAliases == {Str(" "), << "w", " " >>}

KeyTokens == {Str(" "), Str("X"), << " ", "w" >>}

InitKeys ==
    /\ catalog = KeyCatalog
    /\ cache = NoCache
    /\ clockPast \in BOOLEAN
    /\ reloadDue = clockPast
    /\ saves = 1
    /\ lastMut = NoMut
    /\ lastRes = NoRes
    /\ HookIdle
    /\ SyncOff

NextKeys ==
    \/ \E token \in KeyTokens : Resolve(token) /\ UNCHANGED << hookVars, syncVars >>
    \/ \E id \in 1..(2 + MaxSaves), alias \in KeyAliases :
          CmdAddAlias(id, alias) /\ UNCHANGED << hookVars, syncVars >>
    \/ \E id \in 1..(2 + MaxSaves) : StoreDropsEntry(id) /\ UNCHANGED << hookVars, syncVars >>
    \/ StoreAddsEntry /\ UNCHANGED << hookVars, syncVars >>
    \/ \E sinceReload \in BOOLEAN : Tick(sinceReload) /\ UNCHANGED << hookVars, syncVars >>

SpecKeys == InitKeys /\ [][NextKeys]_vars

(***************************************************************************)
(* The staleness reload on its own: handlers that resolve a token, time    *)
(* passing, and a store that other parties change; no command invalidates  *)
(* (SpecReload).  cfg.intervalZero: the configured interval is <= 0, so a  *)
(* reload is due at every access.                                          *)
(***************************************************************************)
\* _maybe_refresh_storage_index(force=False): when a reload is due and
\* reload_index returns, the stamp is set and the cache dropped; when it raises
\* the stamp and the cache are kept
MaybeRefreshKeepsCache(kept, due, reloadOk) ==
    [cache |-> kept, reloaded |-> due /\ reloadOk]

MaybeRefreshStorageIndex(kept, due, reloadOk) ==
    [cache |-> IF due /\ reloadOk THEN NoCache ELSE kept, reloaded |-> due /\ reloadOk]

InitReload ==
    /\ catalog = StaleCatalog
    /\ cache = NoCache
    /\ cfg \in [gate : {"none"}, intervalZero : BOOLEAN]
    /\ clockPast \in BOOLEAN
    /\ cfg.intervalZero => clockPast
    /\ reloadDue = clockPast
    /\ saves = 2
    /\ lastMut = NoMut
    /\ lastRes = NoRes
    /\ reply = << >> /\ chain = << >> /\ pc = "idle" /\ path = "none"
    /\ segments = << >> /\ segPos = 0 /\ followUps = << >> /\ followPos = 0
    /\ sent = << >> /\ finished = FALSE /\ used = << >> /\ subLog = << >>
    /\ inFlight = {}
    /\ walk = NoWalk
    /\ SyncOff

\* a handler that resolves one token: _ensure_storage, whose reload_index
\* raises when reloadOk is false, then _find_sticker_by_shortcode
AccessResolves(token, reloadOk) ==
    LET due == cfg.intervalZero \/ reloadDue
        ref == MaybeRefreshStorageIndex(cache, due, reloadOk)
        r == FindStickerByShortcode(ref.cache, catalog, token)
    IN  /\ cache' = r.cache
        /\ reloadDue' = IF ref.reloaded THEN cfg.intervalZero ELSE reloadDue
        /\ lastRes' = [valid |-> TRUE, token |-> token, sticker |-> r.sticker,
                       rebuilt |-> r.rebuilt, stale |-> r.stale, via |-> r.via]
        /\ lastMut' = IF ref.reloaded THEN [kind |-> "reload", id |-> 0, key |-> << >>]
                      ELSE IF due THEN [kind |-> "reloadFailed", id |-> 0, key |-> << >>]
                      ELSE MutAfterOther
        /\ UNCHANGED << catalog, saves, clockPast >>

NextReload ==
    \/ \E token \in StaleTokens \cup {Str(" ")}, reloadOk \in BOOLEAN :
          AccessResolves(token, reloadOk) /\ UNCHANGED << hookVars, syncVars >>
    \/ \E id \in 1..(3 + MaxSaves) : StoreDropsEntry(id) /\ UNCHANGED << hookVars, syncVars >>
    \/ StoreAddsEntry /\ UNCHANGED << hookVars, syncVars >>
    \/ \E sinceReload \in BOOLEAN : Tick(sinceReload) /\ UNCHANGED << hookVars, syncVars >>

SpecReload == InitReload /\ [][NextReload]_vars

(***************************************************************************)
(* hook_replace_shortcodes on one outgoing message (SpecHook).             *)
(***************************************************************************)
\* the pieces the reply text is made of
Pieces == {<< "a" >>, << " " >>, << ":", "x", ":" >>, << ":", "y", ":" >>,
           << ":", "z", ":" >>, << ":", "w", ":" >>}

PieceSeqs == UNION {[1..n -> Pieces] : n \in 0..MaxPieces}

\* the catalog the message is resolved against: x, y and z are entries, w is not
HookCatalog == << Entry(1, Str("x"), << >>), Entry(2, Str("y"), << >>),
                 Entry(3, Str("z"), << >>) >>

\* gate: which of the handler's early exits the configuration takes, if any;
\* replyId: _get_reply_event_id finds an id; cached: the event's
\* _sticker_llm_completion extra (empty when unset)
ClosedConfigs ==
    [gate : {"injection", "extension", "storage"}, isMatrix : {FALSE},
     fullIntercept : {FALSE}, streaming : {FALSE}, strict : BOOLEAN,
     max : {0}, emoji : BOOLEAN, unbuildable : {{}}, replyId : {FALSE},
     cached : {<< >>}]

MatrixConfigs ==
    [gate : {"open"}, isMatrix : {TRUE}, fullIntercept : BOOLEAN,
     streaming : BOOLEAN, strict : BOOLEAN, max : 0..MaxCap, emoji : BOOLEAN,
     unbuildable : {{}}, replyId : {FALSE}, cached : {<< >>}]

OtherConfigs ==
    [gate : {"open"}, isMatrix : {FALSE}, fullIntercept : {FALSE},
     streaming : BOOLEAN, strict : BOOLEAN, max : 0..MaxCap, emoji : BOOLEAN,
     unbuildable : {{}, {2}}, replyId : {FALSE}, cached : {<< >>}]

HookConfigs == ClosedConfigs \cup MatrixConfigs \cup OtherConfigs

\* the result chain the event carries: none for an empty reply, else one Plain
InitChain(pieces) == IF pieces = << >> THEN << >> ELSE << Plain(Flatten(pieces)) >>

InitHook ==
    /\ catalog = HookCatalog
    /\ cache = NoCache
    /\ clockPast = FALSE
    /\ reloadDue = FALSE
    /\ saves = 0
    /\ lastMut = NoMut
    /\ lastRes = NoRes
    /\ cfg \in HookConfigs
    /\ \E pieces \in PieceSeqs : chain = InitChain(pieces)
    /\ reply = chain
    /\ pc = "start"
    /\ path = "none"
    /\ segments = << >>
    /\ segPos = 0
    /\ followUps = << >>
    /\ followPos = 0
    /\ sent = << >>
    /\ finished = FALSE
    /\ used = << >>
    /\ subLog = << >>
    /\ inFlight = {}
    /\ walk = NoWalk
    /\ SyncOff

\* _convert_emoji_shortcodes_in_result(result), as each way out of the handler
\* calls it
EmojiPassUnlessSubstituted(ch) ==
    IF \E i \in 1..Len(ch) : ~IsPlain(ch[i]) THEN ch
    ELSE ConvertEmojiShortcodesInResult(ch, cfg.emoji, cfg.strict)

EmojiPass(ch) == ConvertEmojiShortcodesInResult(ch, cfg.emoji, cfg.strict)

\* the handler returns
HookReturn(newChain, newPath) ==
    /\ chain' = newChain
    /\ path' = newPath
    /\ pc' = "done"

\* the split sender has returned: the chain is cleared and the event is marked
SplitDone ==
    /\ chain' = << >>
    /\ finished' = TRUE
    /\ pc' = "done"

\* the synchronous computations of hook_replace_shortcodes: the matches and
\* their resolution, and what the split sender or the inline loop builds
HookPlanSplitsWithoutMatch(ch, c, kept, cat) ==
    LET text == FullText(ch)
        matches == FindIter(text, c.strict)
        res == ResolveShortcodeStickerMap(MatchNames(matches), kept, cat)
        split == c.isMatrix /\ c.fullIntercept /\ AllResolve(matches, res.map)
    IN  [cache |-> res.cache,
         split |-> split,
         segs |-> IF split THEN BuildSegments(text, res.map, c) ELSE << >>,
         sub |-> SubstituteChain(IF split THEN << >> ELSE ch, res.map, c)]

HookPlan(ch, c, kept, cat) ==
    LET text == FullText(ch)
        matches == FindIter(text, c.strict)
        res == ResolveShortcodeStickerMap(MatchNames(matches), kept, cat)
        split == c.isMatrix /\ c.fullIntercept /\ matches # << >>
                    /\ AllResolve(matches, res.map)
    IN  [cache |-> res.cache,
         split |-> split,
         segs |-> IF split THEN BuildSegments(text, res.map, c) ELSE << >>,
         sub |-> SubstituteChain(IF split THEN << >> ELSE ch, res.map, c)]

\* the chain after the fallback to the cached completion text: a chain with no
\* text is replaced by one Plain holding the cached text, when there is one
WithCachedText(ch, c) ==
    IF FullText(ch) = << >> /\ c.cached # << >> THEN << Plain(c.cached) >> ELSE ch

\* hook_replace_shortcodes from its entry to its first suspension or its return
HookStart ==
    /\ pc = "start"
    /\ IF chain = << >>
       THEN /\ HookReturn(chain, "empty")
            /\ UNCHANGED << cache, reloadDue, segments, segPos, followUps, followPos,
                            finished, used, subLog >>
       ELSE IF cfg.gate # "open"
       THEN /\ HookReturn(EmojiPass(chain), "early")
            /\ UNCHANGED << cache, reloadDue, segments, segPos, followUps, followPos,
                            finished, used, subLog >>
       ELSE \E ch \in {WithCachedText(chain, cfg)} :
            \E plan \in {HookPlan(ch, cfg, EnsureStorage(cache, reloadDue), catalog)} :
            /\ cache' = plan.cache
            /\ reloadDue' = FALSE
            /\ IF plan.split
               THEN /\ path' = "split"
                    /\ segments' = plan.segs
                    /\ segPos' = NextSendable(plan.segs, 1)
                    /\ IF NextSendable(plan.segs, 1) > Len(plan.segs) THEN SplitDone
                       ELSE /\ pc' = "split"
                            /\ chain' = ch
                            /\ UNCHANGED finished
                    /\ UNCHANGED << followUps, followPos, used, subLog >>
               ELSE /\ subLog' = plan.sub.log
                    /\ used' = used \o plan.sub.marks
                    /\ IF /\ plan.sub.modified
                          /\ cfg.isMatrix /\ cfg.streaming /\ plan.sub.found # << >>
                       THEN /\ followUps' = plan.sub.found
                            /\ followPos' = 1
                            /\ pc' = "follow"
                            /\ path' = "inline"
                            /\ chain' = ch
                       ELSE /\ HookReturn(EmojiPass(IF plan.sub.modified
                                                    THEN plan.sub.chain ELSE ch),
                                          "inline")
                            /\ UNCHANGED << followUps, followPos >>
                    /\ UNCHANGED << segments, segPos, finished >>
    /\ UNCHANGED << catalog, clockPast, saves, lastMut, lastRes, cfg, reply, sent, inFlight,
                    walk >>

\* _send_split_messages: one event.send of the send loop, which raises when
\* ok is false, up to the next send or the return to the handler
SplitSendFailFast(ok) ==
    /\ pc = "split"
    /\ LET seg == segments[segPos]
           next == NextSendable(segments, segPos + 1)
       IN  /\ sent' = Append(sent, [comp |-> seg, ok |-> ok, reply |-> cfg.replyId])
           /\ used' = IF ok /\ ~IsPlain(seg) THEN Append(used, seg.id) ELSE used
           /\ IF ~ok \/ next > Len(segments)
              THEN /\ SplitDone
                   /\ UNCHANGED segPos
              ELSE /\ segPos' = next
                   /\ UNCHANGED << chain, finished, pc >>
    /\ UNCHANGED << cacheVars, cfg, reply, path, segments, followUps, followPos,
                    subLog, inFlight, walk >>

SplitSend(ok) ==
    /\ pc = "split"
    /\ LET seg == segments[segPos]
           next == NextSendable(segments, segPos + 1)
       IN  /\ sent' = Append(sent, [comp |-> seg, ok |-> ok, reply |-> cfg.replyId])
           /\ used' = IF ok /\ ~IsPlain(seg) THEN Append(used, seg.id) ELSE used
           /\ IF (~ok /\ ~cfg.streaming) \/ next > Len(segments)
              THEN /\ SplitDone
                   /\ UNCHANGED segPos
              ELSE /\ segPos' = next
                   /\ UNCHANGED << chain, finished, pc >>
    /\ UNCHANGED << cacheVars, cfg, reply, path, segments, followUps, followPos,
                    subLog, inFlight, walk >>

\* the follow-up loop of a streaming reply: one event.send, up to the next send
\* or, after the last, the emoji pass and the return
FollowSendFailFast(ok) ==
    /\ pc = "follow"
    /\ sent' = Append(sent, [comp |-> Sticker(followUps[followPos]), ok |-> ok,
                             reply |-> cfg.replyId])
    /\ used' = IF ok THEN Append(used, followUps[followPos]) ELSE used
    /\ IF ~ok \/ followPos = Len(followUps)
       THEN /\ chain' = EmojiPass(chain)
            /\ pc' = "done"
            /\ UNCHANGED followPos
       ELSE /\ followPos' = followPos + 1
            /\ UNCHANGED << chain, pc >>
    /\ UNCHANGED << cacheVars, cfg, reply, path, segments, segPos, followUps, finished,
                    subLog, inFlight, walk >>

FollowSend(ok) ==
    /\ pc = "follow"
    /\ sent' = Append(sent, [comp |-> Sticker(followUps[followPos]), ok |-> ok,
                             reply |-> cfg.replyId])
    /\ used' = IF ok THEN Append(used, followUps[followPos]) ELSE used
    /\ IF followPos = Len(followUps)
       THEN /\ chain' = EmojiPass(chain)
            /\ pc' = "done"
            /\ UNCHANGED followPos
       ELSE /\ followPos' = followPos + 1
            /\ UNCHANGED << chain, pc >>
    /\ UNCHANGED << cacheVars, cfg, reply, path, segments, segPos, followUps, finished,
                    subLog, inFlight, walk >>

NextHook ==
    \/ HookStart /\ UNCHANGED syncVars
    \/ \E ok \in BOOLEAN : SplitSend(ok) /\ UNCHANGED syncVars
    \/ \E ok \in BOOLEAN : FollowSend(ok) /\ UNCHANGED syncVars

SpecHook == InitHook /\ [][NextHook]_vars

(***************************************************************************)
(* hook_replace_shortcodes on replies that carry the escape character and  *)
(* unclosed or chained tokens (SpecEscape).                                *)
(***************************************************************************)
EscChars == {":", "\\", "x", "-", " "}

EscTexts == UNION {[1..n -> EscChars] : n \in 0..MaxChars}

EscConfigs ==
    [gate : {"open", "injection"}, isMatrix : {TRUE}, fullIntercept : BOOLEAN,
     streaming : BOOLEAN, strict : BOOLEAN, max : {0}, emoji : BOOLEAN,
     unbuildable : {{}}, replyId : {FALSE}, cached : {<< >>}]

InitEscape ==
    /\ catalog = HookCatalog
    /\ cache = NoCache
    /\ clockPast = FALSE
    /\ reloadDue = FALSE
    /\ saves = 0
    /\ lastMut = NoMut
    /\ lastRes = NoRes
    /\ cfg \in EscConfigs
    /\ \E text \in EscTexts : chain = InitChain(IF text = << >> THEN << >> ELSE << text >>)
    /\ reply = chain
    /\ pc = "start"
    /\ path = "none"
    /\ segments = << >>
    /\ segPos = 0
    /\ followUps = << >>
    /\ followPos = 0
    /\ sent = << >>
    /\ finished = FALSE
    /\ used = << >>
    /\ subLog = << >>
    /\ inFlight = {}
    /\ walk = NoWalk
    /\ SyncOff

SpecEscape == InitEscape /\ [][NextHook]_vars

(***************************************************************************)
(* hook_replace_shortcodes on Matrix and on other platforms, where the     *)
(* image of entry y cannot be built, with sends that may fail (SpecMedia). *)
(***************************************************************************)
MediaConfigs ==
    {c \in [gate : {"open"}, isMatrix : BOOLEAN, fullIntercept : BOOLEAN,
            streaming : BOOLEAN, strict : {FALSE}, max : 0..MaxCap, emoji : {FALSE},
            unbuildable : {{}, {2}}, replyId : {FALSE}, cached : {<< >>}] :
        IF c.isMatrix THEN c.unbuildable = {} ELSE ~c.fullIntercept}

InitMedia ==
    /\ catalog = HookCatalog
    /\ cache = NoCache
    /\ clockPast = FALSE
    /\ reloadDue = FALSE
    /\ saves = 0
    /\ lastMut = NoMut
    /\ lastRes = NoRes
    /\ cfg \in MediaConfigs
    /\ \E pieces \in PieceSeqs : chain = InitChain(pieces)
    /\ reply = chain
    /\ pc = "start"
    /\ path = "none"
    /\ segments = << >>
    /\ segPos = 0
    /\ followUps = << >>
    /\ followPos = 0
    /\ sent = << >>
    /\ finished = FALSE
    /\ used = << >>
    /\ subLog = << >>
    /\ inFlight = {}
    /\ walk = NoWalk
    /\ SyncOff

SpecMedia == InitMedia /\ [][NextHook]_vars

(***************************************************************************)
(* The same handler with each event.send of the split sender as a call     *)
(* that suspends, on events that may carry a reply id, a cached completion *)
(* text and chains without text (SpecDeliver).                             *)
(***************************************************************************)
CachedTexts == {<< >>, << "a" >>, << ":", "x", ":" >>}

DeliverConfigs ==
    [gate : {"open"}, isMatrix : {TRUE}, fullIntercept : BOOLEAN, streaming : BOOLEAN,
     strict : {FALSE}, max : 0..MaxCap, emoji : BOOLEAN, unbuildable : {{}},
     replyId : BOOLEAN, cached : CachedTexts]

\* chains whose text is empty: no component, an empty Plain, a lone component
\* that is not text
TextlessChains == {<< >>, << Plain(<< >>) >>, << Image(NoSticker) >>}

DeliverChains == {InitChain(pieces) : pieces \in PieceSeqs} \cup TextlessChains

\* the cached completion text is read only when the chain has no text
InitDeliver ==
    /\ catalog = HookCatalog
    /\ cache = NoCache
    /\ clockPast = FALSE
    /\ reloadDue = FALSE
    /\ saves = 0
    /\ lastMut = NoMut
    /\ lastRes = NoRes
    /\ cfg \in DeliverConfigs
    /\ chain \in DeliverChains
    /\ cfg.cached # << >> => chain \in TextlessChains
    /\ reply = chain
    /\ pc = "start"
    /\ path = "none"
    /\ segments = << >>
    /\ segPos = 0
    /\ followUps = << >>
    /\ followPos = 0
    /\ sent = << >>
    /\ finished = FALSE
    /\ used = << >>
    /\ subLog = << >>
    /\ inFlight = {}
    /\ walk = NoWalk
    /\ SyncOff

\* _send_split_messages: the send loop calls event.send for the segment at
\* segPos and is suspended in the await until that call returns or raises
SendIssueNoAwait ==
    /\ pc = "split"
    /\ inFlight' = inFlight \cup {segPos}
    /\ LET next == NextSendable(segments, segPos + 1)
       IN  IF next > Len(segments)
           THEN /\ SplitDone
                /\ UNCHANGED segPos
           ELSE /\ segPos' = next
                /\ UNCHANGED << chain, finished, pc >>
    /\ UNCHANGED << cacheVars, cfg, reply, path, segments, followUps, followPos, sent,
                    used, subLog, walk >>

SendIssue ==
    /\ pc = "split"
    /\ inFlight' = inFlight \cup {segPos}
    /\ pc' = "sending"
    /\ UNCHANGED << cacheVars, cfg, reply, chain, path, segments, segPos, followUps,
                    followPos, sent, finished, used, subLog, walk >>

\* the event.send of segment i returns (ok) or raises; the send loop, when it
\* awaits that call, runs on to its next event.send or to the handler's return
SendCompletes(i, ok) ==
    /\ i \in inFlight
    /\ inFlight' = inFlight \ {i}
    /\ sent' = Append(sent, [comp |-> segments[i], ok |-> ok, reply |-> cfg.replyId])
    /\ IF pc = "sending" /\ i = segPos
       THEN LET next == NextSendable(segments, segPos + 1)
            IN  /\ used' = IF ok /\ ~IsPlain(segments[i]) THEN Append(used, segments[i].id)
                           ELSE used
                /\ IF (~ok /\ ~cfg.streaming) \/ next > Len(segments)
                   THEN /\ SplitDone
                        /\ UNCHANGED segPos
                   ELSE /\ segPos' = next
                        /\ pc' = "split"
                        /\ UNCHANGED << chain, finished >>
       ELSE UNCHANGED << used, segPos, chain, finished, pc >>
    /\ UNCHANGED << cacheVars, cfg, reply, path, segments, followUps, followPos,
                    subLog, walk >>

NextDeliver ==
    \/ HookStart /\ UNCHANGED syncVars
    \/ SendIssue /\ UNCHANGED syncVars
    \/ \E i \in inFlight, ok \in BOOLEAN : SendCompletes(i, ok) /\ UNCHANGED syncVars
    \/ \E ok \in BOOLEAN : FollowSend(ok) /\ UNCHANGED syncVars

SpecDeliver == InitDeliver /\ [][NextDeliver]_vars

(***************************************************************************)
(* Replies of several segments, with segments that are not text, against a *)
(* catalog in which y is an alias of entry x (SpecChain).                  *)
(***************************************************************************)
MaxComps == 2

ChainCatalog == << Entry(1, Str("x"), << Str("y") >>), Entry(2, Str("z"), << >>) >>

ChainTexts ==
    {<< >>, << "a" >>, << ":", "x", ":" >>, << ":", "y", ":" >>, << ":", "z", ":" >>,
     << ":", "w", ":" >>, << ":", "x", ":", "a", ":", "x", ":" >>,
     << ":", "x", ":", ":", "y", ":" >>, << "a", " ", ":", "z", ":", "a" >>,
     << ":", "x", ":", " ", ":", "z", ":" >>, << ":", "w", ":", ":", "x", ":" >>}

\* a segment of the reply: text, or a component that is not text (an image
\* that is no sticker of the catalog stands for them)
ChainComps == {Plain(text) : text \in ChainTexts} \cup {Image(NoSticker)}

ChainChains == UNION {[1..n -> ChainComps] : n \in 1..MaxComps}

ChainConfigs ==
    {c \in [gate : {"open"}, isMatrix : BOOLEAN, fullIntercept : BOOLEAN,
            streaming : BOOLEAN, strict : {FALSE}, max : {0, 1}, emoji : {FALSE},
            unbuildable : {{}, {2}}, replyId : {FALSE}, cached : {<< >>}] :
        IF c.isMatrix THEN c.unbuildable = {} ELSE ~c.fullIntercept}

InitChainSpec ==
    /\ catalog = ChainCatalog
    /\ cache = NoCache
    /\ clockPast = FALSE
    /\ reloadDue = FALSE
    /\ saves = 0
    /\ lastMut = NoMut
    /\ lastRes = NoRes
    /\ cfg \in ChainConfigs
    /\ chain \in ChainChains
    /\ reply = chain
    /\ pc = "start"
    /\ path = "none"
    /\ segments = << >>
    /\ segPos = 0
    /\ followUps = << >>
    /\ followPos = 0
    /\ sent = << >>
    /\ finished = FALSE
    /\ used = << >>
    /\ subLog = << >>
    /\ inFlight = {}
    /\ walk = NoWalk
    /\ SyncOff

SpecChain == InitChainSpec /\ [][NextHook]_vars

(***************************************************************************)
(* The inline loop with its awaits (SpecWalk): on a platform other than    *)
(* Matrix each resolved match awaits _build_image_component_from_sticker,  *)
(* which awaits matrix_client.download_file for a sticker that has no      *)
(* local file (cfg.remote) and returns None for one that cannot be         *)
(* fetched (cfg.unbuildable).  Commands and other handlers run while the   *)
(* loop is suspended.                                                      *)
(***************************************************************************)
WalkPieces == {<< "a" >>, << ":", "x", ":" >>, << ":", "y", ":" >>}

WalkChains == {InitChain(pieces) : pieces \in UNION {[1..n -> WalkPieces] : n \in 0..MaxPieces}}

WalkConfigs ==
    [gate : {"open"}, isMatrix : BOOLEAN, fullIntercept : {FALSE}, streaming : {FALSE},
     strict : {FALSE}, max : {0}, emoji : {FALSE}, unbuildable : {{}, {2}},
     remote : {{1}, {1, 2}}, replyId : {FALSE}, cached : {<< >>}]

\* the await of the image build suspends the loop
SuspendsOnAnyPlatform(id, c) == id # NoSticker /\ id \in c.remote

Suspends(id, c) == ~c.isMatrix /\ id # NoSticker /\ id \in c.remote

\* resolved_shortcodes as the loop reads it at a match
WalkLookupLive(w, names, kept, cat) == ResolveShortcodeStickerMap(names, kept, cat).map

WalkLookup(w, names, kept, cat) == w.map

\* the inline loop from the match (w.ci, w.mi) up to its next suspension or
\* its end; w.resumed: the await at that match has returned
RECURSIVE RunWalk(_, _, _, _, _)
RunWalk(w, ch, c, kept, cat) ==
    IF w.ci > Len(ch) THEN [w EXCEPT !.at = "end"]
    ELSE LET comp == ch[w.ci]
             matches == IF IsPlain(comp) THEN FindIter(comp.text, c.strict) ELSE << >>
             nextComp(st) == [w EXCEPT !.st = [st EXCEPT !.lastEnd = 1, !.cmod = FALSE],
                                       !.ci = @ + 1, !.mi = 1]
         IN  IF matches = << >>
             THEN RunWalk(nextComp([w.st EXCEPT !.chain = Append(@, comp)]), ch, c, kept, cat)
             ELSE IF w.mi > Len(matches)
             THEN LET run == w.st
                      tail == IF run.lastEnd <= Len(comp.text)
                              THEN [run EXCEPT !.chain =
                                        Append(@, Plain(Slice(comp.text, run.lastEnd,
                                                              Len(comp.text) + 1))),
                                               !.cmod = TRUE]
                              ELSE run
                  IN  RunWalk(nextComp(IF tail.cmod THEN tail
                                       ELSE [tail EXCEPT !.chain = Append(@, comp)]),
                              ch, c, kept, cat)
             ELSE LET m == matches[w.mi]
                      resolved == WalkLookup(w, MatchNames(FindIter(FullText(ch), c.strict)),
                                             kept, cat)
                      id == DictGet(resolved, Normalize(m.name))
                  IN  IF Suspends(id, c) /\ ~w.resumed THEN [w EXCEPT !.at = "await"]
                      ELSE RunWalk([w EXCEPT !.st = SubstituteMatch(@, comp.text, m,
                                                                    resolved, c),
                                             !.mi = @ + 1, !.resumed = FALSE],
                                   ch, c, kept, cat)

InitWalk ==
    /\ catalog = HookCatalog
    /\ cache = NoCache
    /\ clockPast = FALSE
    /\ reloadDue = FALSE
    /\ saves = 0
    /\ lastMut = NoMut
    /\ lastRes = NoRes
    /\ cfg \in WalkConfigs
    /\ chain \in WalkChains
    /\ reply = chain
    /\ pc = "start"
    /\ path = "none"
    /\ segments = << >>
    /\ segPos = 0
    /\ followUps = << >>
    /\ followPos = 0
    /\ sent = << >>
    /\ finished = FALSE
    /\ used = << >>
    /\ subLog = << >>
    /\ inFlight = {}
    /\ walk = NoWalk
    /\ SyncOff

\* the loop has run up to w: its usage marks and its matches' branches so far;
\* at its end the chain is replaced when modified, the emoji pass runs and the
\* handler returns
WalkReaches(w, ch, marked) ==
    /\ walk' = w
    /\ used' = used \o SubSeq(w.st.marks, marked + 1, Len(w.st.marks))
    /\ subLog' = w.st.log
    /\ IF w.at = "end"
       THEN HookReturn(EmojiPass(IF w.st.modified THEN w.st.chain ELSE ch), "inline")
       ELSE /\ pc' = "await"
            /\ path' = "inline"
            /\ chain' = ch

\* hook_replace_shortcodes of a reply that takes the inline loop, from its
\* entry to the loop's first suspension or to its return
WalkStart ==
    /\ pc = "start"
    /\ chain # << >>
    /\ cfg.gate = "open"
    /\ ~(cfg.isMatrix /\ (cfg.fullIntercept \/ cfg.streaming))
    /\ \E ch \in {WithCachedText(chain, cfg)} :
       \E res \in {ResolveShortcodeStickerMap(MatchNames(FindIter(FullText(ch), cfg.strict)),
                                              EnsureStorage(cache, reloadDue), catalog)} :
          /\ cache' = res.cache
          /\ reloadDue' = FALSE
          /\ WalkReaches(RunWalk([at |-> "run", map |-> res.map, ci |-> 1, mi |-> 1,
                                  resumed |-> FALSE,
                                  st |-> [chain |-> << >>, found |-> << >>,
                                          marks |-> << >>, lastEnd |-> 1,
                                          modified |-> FALSE, cmod |-> FALSE,
                                          log |-> << >>]],
                                 ch, cfg, res.cache, catalog),
                         ch, 0)
    /\ UNCHANGED << catalog, clockPast, saves, lastMut, lastRes, cfg, reply, segments,
                    segPos, followUps, followPos, sent, finished, inFlight >>

\* the awaited image build returns: the loop runs on to its next suspension
\* or to the handler's return
WalkResume ==
    /\ pc = "await"
    /\ WalkReaches(RunWalk([walk EXCEPT !.resumed = TRUE], chain, cfg, cache, catalog),
                   chain, Len(walk.st.marks))
    /\ UNCHANGED << cacheVars, cfg, reply, segments, segPos, followUps, followPos, sent,
                    finished, inFlight >>

\* the event loop runs another task only while the handler is not running
HandlerSuspended == pc \in {"start", "await", "done"}

NextWalk ==
    \/ WalkStart /\ UNCHANGED syncVars
    \/ WalkResume /\ UNCHANGED syncVars
    \/ \E id \in 1..2 :
          HandlerSuspended /\ CmdDeleteSticker(id) /\ UNCHANGED << hookVars, syncVars >>
    \/ HandlerSuspended /\ CmdAddAlias(3, Str("x")) /\ UNCHANGED << hookVars, syncVars >>
    \/ HandlerSuspended /\ Resolve(Str("x")) /\ UNCHANGED << hookVars, syncVars >>

SpecWalk == InitWalk /\ [][NextWalk]_vars

(***************************************************************************)
(* The background sync scheduler, terminate() and "/sticker sync"          *)
(* (SpecSync).  A task step runs from one suspension point to the next.    *)
(***************************************************************************)
\* range(30) in _startup_sync_when_ready
StartupPolls == 30

Platforms == 1..MaxPlatforms

\* the joined rooms a client reports: TRUE for a room id, FALSE for a blank one
RoomLists == UNION {[1..n -> BOOLEAN] : n \in 0..MaxRooms}

\* the pcs at which a task is suspended inside a call made under the lock
WorkPcs == {"userSync", "rooms", "roomSync"}

\* Task.done()
IsDone(task) == task.pc = "free"

\* no call of syncer.reset_available
NoReset == [plat |-> 0, ok |-> FALSE]

\* the plugin's scheduler attributes, as one value, with what the step under
\* way meets and does: resetOk, whether syncer.reset_available returns (TRUE)
\* or raises; reset, the call of it the step has made
World ==
    [tasks |-> tasks, holder |-> holder, waiters |-> waiters, userSynced |-> userSynced,
     availReset |-> availReset, startupHandle |-> startupHandle,
     autoHandle |-> autoHandle, resetOk |-> TRUE, reset |-> NoReset]

Given(w, resetOk) == [w EXCEPT !.resetOk = resetOk]

\* the task ends, its slot is free again, and its done callback clears the
\* handle that still names it
Finish(w, t) ==
    [w EXCEPT !.tasks[t] = FreeTask,
              !.startupHandle = IF @ = t THEN 0 ELSE @,
              !.autoHandle = IF @ = t THEN 0 ELSE @]

\* asyncio.Lock.acquire takes the lock at once when it is free and every
\* waiter's future is cancelled (q: the waiters whose future is not)
CanAcquireAlways(h, q) == TRUE

CanAcquire(h, q) == h = 0 /\ q = << >>

\* the waiters whose future is not cancelled: Task.cancel() cancels the future
\* a task waits on unless the future is already done (the waiter was woken)
LiveWaiters(w) ==
    SelectSeq(w.waiters, LAMBDA u : w.tasks[u].kill = "none" \/ w.tasks[u].woken)

\* asyncio.Lock._wake_up_first, called when the lock is not held: the first
\* waiter's future gets its result unless it is done already
WakeUpFirst(w) ==
    IF w.holder = 0 /\ w.waiters # << >> /\ w.tasks[Head(w.waiters)].kill = "none"
    THEN [w EXCEPT !.tasks[Head(w.waiters)].woken = TRUE] ELSE w

\* leaving "async with self._auto_sync_lock", normally or by an exception
KeepOnExit(h, t) == h

ReleaseOnExit(h, t) == IF h = t THEN 0 ELSE h

\* the "except Exception" handlers around the calls of _sync_platform_stickers
HandlerCatchesAll(exc, at) == at \in WorkPcs

HandlerCatches(exc, at) == exc = "error" /\ at \in WorkPcs

\* _sync_all_platform_stickers_once has returned to its caller
AfterSyncAll(w, t) ==
    IF w.tasks[t].kind = "startup" THEN Finish(w, t)
    ELSE [w EXCEPT !.tasks[t] = [FreeTask EXCEPT !.kind = "auto", !.pc = "sleep",
                                            !.kill = w.tasks[t].kill]]

\* _sync_platform_stickers for a ready platform p, up to its first await:
\* reset_available is called unless p's key is in
\* _availability_reset_platform_ids, and the key is added when it has returned
StartSessionMarksAlways(w, t, p) ==
    [w EXCEPT !.availReset = @ \cup {p},
              !.reset = IF p \notin w.availReset THEN [plat |-> p, ok |-> w.resetOk] ELSE @,
              !.tasks[t].plat = p,
              !.tasks[t].pc = IF syncUser /\ p \notin w.userSynced THEN "userSync" ELSE "rooms"]

StartSession(w, t, p) ==
    [w EXCEPT !.availReset = IF p \notin @ /\ w.resetOk THEN @ \cup {p} ELSE @,
              !.reset = IF p \notin w.availReset THEN [plat |-> p, ok |-> w.resetOk] ELSE @,
              !.tasks[t].plat = p,
              !.tasks[t].pc = IF syncUser /\ p \notin w.userSynced THEN "userSync" ELSE "rooms"]

\* the loop over the platforms, from platform p, up to the next await: a
\* platform whose client is not ready returns at once, so the loop is over
\* when no ready platform is left
RECURSIVE NextPlatform(_, _, _)
NextPlatform(w, t, p) ==
    IF \A q \in ready : q < p
    THEN AfterSyncAll(WakeUpFirst([w EXCEPT !.holder = ReleaseOnExit(@, t)]), t)
    ELSE IF p \notin ready THEN NextPlatform(w, t, p + 1)
    ELSE StartSession(w, t, p)

\* the loop over the joined rooms still to visit, up to the next await
RECURSIVE NextRoom(_, _, _)
NextRoom(w, t, rest) ==
    IF rest = << >> THEN NextPlatform(w, t, w.tasks[t].plat + 1)
    ELSE IF ~Head(rest) THEN NextRoom(w, t, Tail(rest))
    ELSE [w EXCEPT !.tasks[t].pc = "roomSync", !.tasks[t].rooms = Tail(rest)]

\* _sync_all_platform_stickers_once from its entry
EnterSyncAll(w, t) ==
    IF ~autoSync THEN AfterSyncAll(w, t)
    ELSE IF CanAcquire(w.holder, LiveWaiters(w))
    THEN NextPlatform([w EXCEPT !.holder = t], t, 1)
    ELSE [w EXCEPT !.waiters = Append(@, t), !.tasks[t].pc = "lockwait"]

\* _startup_sync_when_ready at the top of a poll
PollIgnoresReady(w, t) ==
    IF w.tasks[t].polls < StartupPolls
    THEN [w EXCEPT !.tasks[t].pc = "sleep1", !.tasks[t].polls = @ + 1]
    ELSE EnterSyncAll([w EXCEPT !.tasks[t].polls = 0], t)

Poll(w, t) ==
    IF w.tasks[t].polls < StartupPolls /\ ready = {}
    THEN [w EXCEPT !.tasks[t].pc = "sleep1", !.tasks[t].polls = @ + 1]
    ELSE EnterSyncAll([w EXCEPT !.tasks[t].polls = 0], t)

\* "except Exception" around sync-all in _auto_sync_loop
LoopHandlerCatchesNothing(exc) == FALSE

LoopHandlerCatches(exc) == exc = "error"

\* an error leaves _sync_all_platform_stickers_once: "async with" releases the
\* lock; the loop's handler logs it and the loop goes to sleep, a task without
\* a handler ends (its done callback logs the error)
PassRaises(w, t) ==
    LET out == WakeUpFirst([w EXCEPT !.holder = ReleaseOnExit(@, t)])
    IN  IF out.tasks[t].kind = "auto" /\ LoopHandlerCatches("error")
        THEN [out EXCEPT !.tasks[t] = [FreeTask EXCEPT !.kind = "auto", !.pc = "sleep"]]
        ELSE Finish(out, t)

\* the task resumes at its suspension point; ok and rooms are what the call it
\* was suspended in returned
Resume(w, t, ok, rooms) ==
    LET at == w.tasks[t].pc
    IN  CASE at = "new" -> IF w.tasks[t].kind = "startup" THEN Poll(w, t)
                           ELSE EnterSyncAll(w, t)
          [] at = "sleep1" -> Poll(w, t)
          [] at = "sleep" -> EnterSyncAll(w, t)
          [] at = "lockwait" ->
                NextPlatform([w EXCEPT !.holder = t, !.tasks[t].woken = FALSE,
                                       !.waiters = SelectSeq(@, LAMBDA u : u # t)],
                             t, 1)
          [] at = "userSync" ->
                [w EXCEPT !.userSynced = IF ok THEN @ \cup {w.tasks[t].plat} ELSE @,
                          !.tasks[t].pc = "rooms"]
          [] at = "rooms" ->
                IF ok THEN NextRoom(w, t, rooms)
                ELSE NextPlatform(w, t, w.tasks[t].plat + 1)
          [] at = "roomSync" -> NextRoom(w, t, w.tasks[t].rooms)

\* CancelledError is raised at the task's suspension point: a handler that
\* catches it lets the task go on as after a failed call, otherwise the task
\* leaves the lock (or the lock's queue) and ends
Cancelled(w, t) ==
    LET at == w.tasks[t].pc
        marked == [w EXCEPT !.tasks[t].kill = "delivered"]
    IN  IF HandlerCatches("cancel", at) THEN Resume(marked, t, FALSE, << >>)
        ELSE Finish(WakeUpFirst([marked EXCEPT
                                    !.holder = ReleaseOnExit(@, t),
                                    !.waiters = SelectSeq(@, LAMBDA u : u # t)]),
                    t)

\* Task.cancel(): the task's next step raises CancelledError where it is
\* suspended, so of its frame only the suspension point still matters
Cancel(w, t) ==
    IF w.tasks[t].kill = "none" /\ ~IsDone(w.tasks[t])
    THEN [w EXCEPT !.tasks[t] = [FreeTask EXCEPT !.kind = w.tasks[t].kind,
                                                 !.pc = w.tasks[t].pc,
                                                 !.woken = w.tasks[t].woken,
                                                 !.kill = "requested"]]
    ELSE w


\* the handle attribute of a task kind
Handle(w, kind) == IF kind = "startup" THEN w.startupHandle ELSE w.autoHandle

SetHandle(w, kind, t) ==
    IF kind = "startup" THEN [w EXCEPT !.startupHandle = t]
    ELSE [w EXCEPT !.autoHandle = t]

\* "self._x_task and not self._x_task.done()"
IsLive(w, kind) == Handle(w, kind) # 0 /\ ~IsDone(w.tasks[Handle(w, kind)])

\* _ensure_startup_sync_task / _ensure_auto_sync_task; slot: where
\* asyncio.create_task puts the new task
EnsureSyncTask(w, kind, slot) ==
    IF ~autoSync
    THEN SetHandle(IF IsLive(w, kind) THEN Cancel(w, Handle(w, kind)) ELSE w, kind, 0)
    ELSE IF IsLive(w, kind) THEN w
    ELSE SetHandle([w EXCEPT !.tasks[slot] = [FreeTask EXCEPT !.kind = kind, !.pc = "new"]],
                   kind, slot)

\* the slot a task created now would take (a startup task the lowest free one,
\* a loop task the highest); 0 when the call creates no task
NewSlots(w, kind) ==
    LET free == {u \in 1..MaxTasks : IsDone(w.tasks[u])}
    IN  IF ~autoSync \/ IsLive(w, kind) THEN {0}
        ELSE {u \in free : \A v \in free : IF kind = "startup" THEN u <= v ELSE u >= v}

\* terminate() from one of its two stages up to its next await or its return
TerminateFrom(w, stage) ==
    LET afterStartup == IF stage = "startup" THEN SetHandle(w, "startup", 0) ELSE w
    IN  IF stage = "startup" /\ IsLive(w, "startup")
        THEN [w |-> Cancel(w, w.startupHandle),
              term |-> [pc |-> "awaitStartup", task |-> w.startupHandle]]
        ELSE IF IsLive(afterStartup, "auto")
        THEN [w |-> Cancel(afterStartup, afterStartup.autoHandle),
              term |-> [pc |-> "awaitAuto", task |-> afterStartup.autoHandle]]
        ELSE [w |-> SetHandle(afterStartup, "auto", 0),
              term |-> [pc |-> "returned", task |-> 0]]

\* the scheduler attributes take the values of w
Becomes(w) ==
    /\ tasks' = w.tasks
    /\ holder' = w.holder
    /\ waiters' = w.waiters
    /\ userSynced' = w.userSynced
    /\ availReset' = w.availReset
    /\ startupHandle' = w.startupHandle
    /\ autoHandle' = w.autoHandle

InitSync ==
    /\ catalog = << >>
    /\ cache = NoCache
    /\ clockPast = FALSE
    /\ reloadDue = FALSE
    /\ saves = 0
    /\ lastMut = NoMut
    /\ lastRes = NoRes
    /\ HookIdle
    /\ SyncIdle
    /\ autoSync \in BOOLEAN
    /\ syncUser = TRUE
    /\ ready = {}

\* the framework changes the configuration object (like the lifecycle events,
\* not once terminate() has been called)
SetAutoSync(on) ==
    /\ term.pc = "idle"
    /\ autoSync # on
    /\ autoSync' = on
    /\ UNCHANGED << syncUser, ready, tasks, startupHandle, autoHandle, holder, waiters,
                    userSynced, availReset, term, cmdSyncs >>

\* a platform's client completes its login
ClientReady(p) ==
    /\ p \notin ready
    /\ ready' = ready \cup {p}
    /\ UNCHANGED << autoSync, syncUser, tasks, startupHandle, autoHandle, holder, waiters,
                    userSynced, availReset, term, cmdSyncs >>

\* on_astrbot_loaded ("auto") and on_platform_loaded ("startup")
OnLoaded(kind) ==
    /\ term.pc = "idle"
    /\ \E slot \in NewSlots(World, kind) : Becomes(EnsureSyncTask(World, kind, slot))
    /\ UNCHANGED << autoSync, syncUser, ready, term, cmdSyncs >>

\* what becomes of the scheduler when task t resumes outside a call
RunOutcome(t, resetOk) == Resume(Given(World, resetOk), t, TRUE, << >>)

\* what becomes of it when the call task t is suspended in returns or raises:
\* an error no handler around the call catches leaves sync-all
CallOutcomeUnhandled(t, ok, rooms, resetOk) ==
    IF ok THEN Resume(Given(World, resetOk), t, ok, rooms) ELSE PassRaises(World, t)

CallOutcome(t, ok, rooms, resetOk) ==
    IF ok \/ HandlerCatches("error", tasks[t].pc)
    THEN Resume(Given(World, resetOk), t, ok, rooms)
    ELSE PassRaises(World, t)

\* a task that is not inside a call resumes: a sleep ends, the lock is handed
\* over (resetOk matters only to a step that calls reset_available)
TaskRuns(t, resetOk) ==
    /\ tasks[t].pc \in {"new", "sleep1", "sleep", "lockwait"}
    /\ tasks[t].kill # "requested"
    /\ tasks[t].pc = "lockwait" => tasks[t].woken
    /\ \E out \in {RunOutcome(t, resetOk)} :
          /\ resetOk \/ out.reset # NoReset
          /\ Becomes(out)
    /\ UNCHANGED << autoSync, syncUser, ready, term, cmdSyncs >>

\* the call a task is suspended in returns (ok) or raises; rooms is what
\* get_joined_rooms returned
CallReturns(t, ok, rooms, resetOk) ==
    /\ tasks[t].pc \in WorkPcs
    /\ tasks[t].kill # "requested"
    /\ (tasks[t].pc = "rooms" /\ ok) \/ rooms = << >>
    /\ \E out \in {CallOutcome(t, ok, rooms, resetOk)} :
          /\ resetOk \/ out.reset # NoReset
          /\ Becomes(out)
    /\ UNCHANGED << autoSync, syncUser, ready, term, cmdSyncs >>

\* a cancelled task is resumed: CancelledError is raised where it is suspended
CancelDelivered(t) ==
    /\ tasks[t].kill = "requested"
    /\ ~IsDone(tasks[t])
    /\ Becomes(Cancelled(World, t))
    /\ UNCHANGED << autoSync, syncUser, ready, term, cmdSyncs >>

\* terminate() is called
TerminateStart ==
    /\ term.pc = "idle"
    /\ \E r \in {TerminateFrom(World, "startup")} : Becomes(r.w) /\ term' = r.term
    /\ cache' = NoCache
    /\ reloadDue' = clockPast
    /\ UNCHANGED << catalog, clockPast, saves, lastMut, lastRes >>
    /\ UNCHANGED << autoSync, syncUser, ready, cmdSyncs >>

\* the task terminate() awaits has ended
TerminateResumes ==
    /\ term.pc \in {"awaitStartup", "awaitAuto"}
    /\ IsDone(tasks[term.task])
    /\ \E r \in {TerminateFrom(SetHandle(World, IF term.pc = "awaitStartup"
                                                THEN "startup" ELSE "auto", 0),
                               IF term.pc = "awaitStartup" THEN "auto" ELSE "end")} :
          Becomes(r.w) /\ term' = r.term
    /\ UNCHANGED << autoSync, syncUser, ready, cmdSyncs >>

\* "/sticker sync": cmd_sync_room_stickers awaits syncer.sync_room_stickers
CmdSyncStart ==
    /\ cmdSyncs < MaxCmds
    /\ cmdSyncs' = cmdSyncs + 1
    /\ UNCHANGED << autoSync, syncUser, ready, tasks, startupHandle, autoHandle, holder,
                    waiters, userSynced, availReset, term >>

\* that call returns or raises
CmdSyncReturns ==
    /\ cmdSyncs > 0
    /\ cmdSyncs' = cmdSyncs - 1
    /\ UNCHANGED << autoSync, syncUser, ready, tasks, startupHandle, autoHandle, holder,
                    waiters, userSynced, availReset, term >>

\* (syncer.reset_available returns in these steps; SpecPass has it raise)
NextSync ==
    \/ \E on \in BOOLEAN : SetAutoSync(on) /\ UNCHANGED << cacheVars, hookVars, watch, cmdVars >>
    \/ \E p \in Platforms : ClientReady(p) /\ UNCHANGED << cacheVars, hookVars, watch, cmdVars >>
    \/ \E kind \in {"startup", "auto"} : OnLoaded(kind) /\ UNCHANGED << cacheVars, hookVars, watch, cmdVars >>
    \/ \E t \in 1..MaxTasks : TaskRuns(t, TRUE) /\ UNCHANGED << cacheVars, hookVars, watch, cmdVars >>
    \/ \E t \in 1..MaxTasks, ok \in BOOLEAN, rooms \in RoomLists :
          CallReturns(t, ok, rooms, TRUE) /\ UNCHANGED << cacheVars, hookVars, watch, cmdVars >>
    \/ \E t \in 1..MaxTasks : CancelDelivered(t) /\ UNCHANGED << cacheVars, hookVars, watch, cmdVars >>
    \/ TerminateStart /\ UNCHANGED << hookVars, watch, cmdVars >>
    \/ TerminateResumes /\ UNCHANGED << cacheVars, hookVars, watch, cmdVars >>

SpecSync == InitSync /\ [][NextSync]_vars

\* the scheduler together with the administrators' "/sticker sync" commands
NextSyncCmd ==
    \/ NextSync
    \/ CmdSyncStart /\ UNCHANGED << cacheVars, hookVars, watch, cmdVars >>
    \/ CmdSyncReturns /\ UNCHANGED << cacheVars, hookVars, watch, cmdVars >>

SpecSyncCmd == InitSync /\ [][NextSyncCmd]_vars

(***************************************************************************)
(* The scheduler under a fair event loop, with errors that leave sync-all  *)
(* (SpecSyncFair).                                                         *)
(***************************************************************************)
\* the call a task is suspended in has returned, and the code that runs
\* before the next call raises outside the handlers of _sync_platform_stickers
\* (the attribute reads on the platform objects as the pass moves on)
SessionRaises(t) ==
    /\ tasks[t].pc \in WorkPcs
    /\ tasks[t].kill # "requested"
    /\ Becomes(PassRaises(World, t))
    /\ UNCHANGED << autoSync, syncUser, ready, term, cmdSyncs >>

\* the history after a step in which no loop task entered sync-all
Unwatched ==
    watch' = [watch EXCEPT !.entered = 0,
                           !.raised = IF @ # 0 /\ IsDone(tasks'[@]) THEN 0 ELSE @]

\* the history after TaskRuns(t): a loop task that was new or asleep has
\* called sync-all
WatchRun(t) ==
    IF tasks[t].kind = "auto" /\ tasks[t].pc \in {"new", "sleep"}
    THEN watch' = [watch EXCEPT !.entered = t]
    ELSE Unwatched

\* the history after SessionRaises(t)
WatchRaise(t) ==
    IF tasks[t].kind = "auto"
    THEN watch' = [watch EXCEPT !.entered = 0, !.raised = t]
    ELSE Unwatched

\* the event loop runs task t: its sleep ends, the lock is handed to it, the
\* call it awaits returns or raises, or its cancellation is delivered
TaskStep(t) ==
    \/ \E resetOk \in BOOLEAN :
          TaskRuns(t, resetOk) /\ WatchRun(t) /\ UNCHANGED << cacheVars, hookVars, cmdVars >>
    \/ \E ok \in BOOLEAN, rooms \in RoomLists, resetOk \in BOOLEAN :
          CallReturns(t, ok, rooms, resetOk) /\ Unwatched
             /\ UNCHANGED << cacheVars, hookVars, cmdVars >>
    \/ CancelDelivered(t) /\ Unwatched /\ UNCHANGED << cacheVars, hookVars, cmdVars >>

NextSyncFair ==
    \/ \E on \in BOOLEAN : SetAutoSync(on) /\ Unwatched /\ UNCHANGED << cacheVars, hookVars, cmdVars >>
    \/ \E p \in Platforms : ClientReady(p) /\ Unwatched /\ UNCHANGED << cacheVars, hookVars, cmdVars >>
    \/ \E kind \in {"startup", "auto"} :
          OnLoaded(kind) /\ Unwatched /\ UNCHANGED << cacheVars, hookVars, cmdVars >>
    \/ \E t \in 1..MaxTasks : TaskStep(t)
    \/ \E t \in 1..MaxTasks :
          SessionRaises(t) /\ WatchRaise(t) /\ UNCHANGED << cacheVars, hookVars, cmdVars >>
    \/ TerminateStart /\ Unwatched /\ UNCHANGED << hookVars, cmdVars >>
    \/ TerminateResumes /\ Unwatched /\ UNCHANGED << cacheVars, hookVars, cmdVars >>

\* asyncio runs every task that can run, and the awaited calls end
SpecSyncFair ==
    InitSync /\ [][NextSyncFair]_vars /\ \A t \in 1..MaxTasks : WF_vars(TaskStep(t))

(***************************************************************************)
(* The periodic loop's sync passes over several sessions and rooms, with   *)
(* every call free to fail (SpecPass).                                     *)
(***************************************************************************)
Sessions == 1..MaxSessions

\* what get_joined_rooms may return
JoinedLists == UNION {[1..n -> BOOLEAN] : n \in 0..MaxJoined}

\* the scheduler is enabled and no platform's client has logged in yet
InitPass ==
    /\ catalog = << >>
    /\ cache = NoCache
    /\ clockPast = FALSE
    /\ reloadDue = FALSE
    /\ saves = 0
    /\ lastMut = NoMut
    /\ lastRes = NoRes
    /\ HookIdle
    /\ SyncIdle
    /\ autoSync = TRUE
    /\ syncUser \in BOOLEAN
    /\ ready = {}

\* the history after a step that is not a task's
WatchIdle == watch' = [watch EXCEPT !.reset = NoReset]

\* the history after a step of task t that leaves the scheduler as out; ok and
\* rooms are what the call it was suspended in returned
WatchPass(t, out, ok, rooms) ==
    LET a == tasks[t]
        b == out.tasks[t]
        starts == b.pc \in {"userSync", "rooms"} /\ a.pc # "userSync"
        takes == out.holder = t /\ holder # t
        list == IF a.pc = "rooms" THEN IF ok THEN rooms ELSE << >> ELSE watch.list
        tried == IF a.pc = "rooms" THEN {} ELSE watch.tried
    IN  watch' =
          [watch EXCEPT
             !.reset = out.reset,
             !.okReset = IF out.reset.ok THEN @ \cup {out.reset.plat} ELSE @,
             !.okUser = IF a.pc = "userSync" /\ ok THEN @ \cup {a.plat} ELSE @,
             !.list = list,
             !.tried = IF b.pc = "roomSync" THEN tried \cup {Len(list) - Len(b.rooms)}
                       ELSE tried,
             !.due = IF takes THEN ready ELSE @,
             !.visited = (IF takes THEN {} ELSE @) \cup (IF starts THEN {b.plat} ELSE {}),
             !.over = IF takes THEN FALSE ELSE @ \/ (holder = t /\ out.holder # t),
             !.badReset = IF out.reset.plat # 0 /\ ~out.reset.ok
                          THEN @ \cup {out.reset.plat} ELSE @,
             !.badRooms = IF a.pc = "rooms" THEN {}
                          ELSE IF a.pc = "roomSync" /\ ~ok
                          THEN @ \cup {Len(list) - Len(a.rooms)} ELSE @,
             !.unlisted = (IF takes THEN {} ELSE @)
                          \cup (IF a.pc = "rooms" /\ ~ok THEN {a.plat} ELSE {})]

NextPass ==
    \/ \E p \in Sessions : ClientReady(p) /\ WatchIdle /\ UNCHANGED << cacheVars, hookVars, cmdVars >>
    \/ OnLoaded("auto") /\ WatchIdle /\ UNCHANGED << cacheVars, hookVars, cmdVars >>
    \/ \E t \in 1..MaxTasks, resetOk \in BOOLEAN :
          /\ TaskRuns(t, resetOk)
          /\ WatchPass(t, RunOutcome(t, resetOk), TRUE, << >>)
          /\ UNCHANGED << cacheVars, hookVars, cmdVars >>
    \/ \E t \in 1..MaxTasks, ok \in BOOLEAN, rooms \in JoinedLists, resetOk \in BOOLEAN :
          /\ CallReturns(t, ok, rooms, resetOk)
          /\ WatchPass(t, CallOutcome(t, ok, rooms, resetOk), ok, rooms)
          /\ UNCHANGED << cacheVars, hookVars, cmdVars >>

SpecPass == InitPass /\ [][NextPass]_vars

(***************************************************************************)
(* The "/sticker" and "/sticker_alias" commands and the LLM tools behind   *)
(* their readiness and permission checks (SpecCommand).                    *)
(***************************************************************************)
\* _MUTATING_STICKER_SUBCOMMANDS, _MUTATING_ALIAS_SUBCOMMANDS
MutatingSubcommands(cmd) ==
    IF cmd = "sticker" THEN {"save", "delete", "sync", "addroom", "removeroom", "mode"}
    ELSE {"add", "remove"}

\* the subcommands the handlers tell apart ("list" stands for the read-only
\* ones: help, list, packs, stats, roomlist; "bogus" for any other word)
Subcommands(cmd) ==
    IF cmd = "sticker"
    THEN {"list", "save", "send", "delete", "sync", "addroom", "removeroom", "mode",
          "bogus"}
    ELSE {"add", "remove", "list", "bogus"}

\* _is_admin_event: bool(event.is_admin()), False when that raises
IsAdminEventTrusting(admin, raises) == admin \/ raises

IsAdminEvent(admin, raises) == admin /\ ~raises

\* _ensure_storage: a missing store is imported again (importOk: with success)
EnsureStorageUp(up, importOk) == up \/ importOk

\* the handler replies without having called a cmd_ method: only the
\* _ensure_storage it began with has touched the plugin
Replied ==
    /\ cache' = EnsureStorage(cache, reloadDue)
    /\ reloadDue' = FALSE
    /\ lastMut' = MutAfterOther
    /\ lastRes' = NoRes
    /\ UNCHANGED << catalog, saves, clockPast >>

\* what a subcommand that is let through and has its arguments goes on to do
\* (the name saved is w, the alias X)
Dispatch(cmd, sub) ==
    CASE cmd = "sticker" /\ sub = "save" ->
            /\ \E ok \in BOOLEAN : CmdSaveSticker(Str("w"), ok)
            /\ UNCHANGED cmdSyncs
      [] cmd = "sticker" /\ sub = "delete" ->
            /\ \E id \in EntryIds : CmdDeleteSticker(id)
            /\ UNCHANGED cmdSyncs
      [] cmd = "sticker" /\ sub = "sync" ->
            /\ cmdSyncs < MaxCmds
            /\ cmdSyncs' = cmdSyncs + 1
            /\ Replied
      [] cmd = "alias" /\ sub = "add" ->
            /\ \E id \in EntryIds : CmdAddAlias(id, Str("X"))
            /\ UNCHANGED cmdSyncs
      [] cmd = "alias" /\ sub = "remove" ->
            /\ \E id \in EntryIds : CmdRemoveAlias(id, Str("X"))
            /\ UNCHANGED cmdSyncs
      [] OTHER -> Replied /\ UNCHANGED cmdSyncs

\* what the dispatched subcommand changes besides the catalog and the room
\* syncs under way: the room's emote state ("addroom", "removeroom"), the
\* saved configuration ("mode"), an entry's usage ("send")
OtherWrites(cmd, sub) ==
    IF cmd # "sticker" THEN {}
    ELSE IF sub \in {"addroom", "removeroom"} THEN {"roomState"}
    ELSE IF sub = "mode" THEN {"config"}
    ELSE IF sub = "send" THEN {"usage"}
    ELSE {}

\* sticker_command, sticker_alias_command; valid: the arguments the
\* subcommand needs are there
Command(cmd, sub, admin, raises, valid, importOk) ==
    LET up == EnsureStorageUp(storage, importOk)
        Ends(said, writes) ==
            outcome' = [cmd |-> cmd, sub |-> sub, admin |-> admin, raises |-> raises,
                        ready |-> up, reply |-> said, writes |-> writes]
    IN  /\ storage' = up
        /\ IF ~up THEN Ends("notReady", {}) /\ UNCHANGED << cacheVars, cmdSyncs >>
           ELSE IF sub \in MutatingSubcommands(cmd) /\ ~IsAdminEvent(admin, raises)
           THEN Ends("denied", {}) /\ Replied /\ UNCHANGED cmdSyncs
           ELSE IF ~valid THEN Ends("usage", {}) /\ Replied /\ UNCHANGED cmdSyncs
           ELSE Ends("done", OtherWrites(cmd, sub)) /\ Dispatch(cmd, sub)
        /\ UNCHANGED << autoSync, syncUser, ready, tasks, startupHandle, autoHandle, holder,
                        waiters, userSynced, availReset, term, watch >>

\* tool_sticker_search, tool_sticker_send
ToolCall(tool, importOk) ==
    LET up == EnsureStorageUp(storage, importOk)
    IN  /\ storage' = up
        /\ outcome' = [cmd |-> "tool", sub |-> tool, admin |-> FALSE, raises |-> FALSE,
                       ready |-> up, reply |-> IF up THEN "done" ELSE "notReady",
                       writes |-> IF up /\ tool = "sticker_send" THEN {"usage"} ELSE {}]
        /\ IF up THEN Replied ELSE UNCHANGED cacheVars
        /\ UNCHANGED << autoSync, syncUser, ready, tasks, startupHandle, autoHandle, holder,
                        waiters, userSynced, availReset, term, cmdSyncs, watch >>

\* the plugin right after __init__, whether or not the store's module could be
\* imported
InitCommand ==
    /\ catalog \in InitCatalogs
    /\ cache = NoCache
    /\ clockPast = FALSE
    /\ reloadDue = FALSE
    /\ saves = 0
    /\ lastMut = NoMut
    /\ lastRes = NoRes
    /\ HookIdle
    /\ SchedulerIdle
    /\ autoSync = FALSE /\ syncUser = FALSE /\ ready = {}
    /\ storage \in BOOLEAN
    /\ outcome = NoOutcome

NextCommand ==
    \/ \E cmd \in {"sticker", "alias"} :
          \E sub \in Subcommands(cmd), admin \in BOOLEAN, raises \in BOOLEAN,
             valid \in BOOLEAN, importOk \in {FALSE, ~storage} :
             /\ raises => ~admin
             /\ Command(cmd, sub, admin, raises, valid, importOk)
             /\ UNCHANGED hookVars
    \/ \E tool \in {"sticker_search", "sticker_send"}, importOk \in {FALSE, ~storage} :
          ToolCall(tool, importOk) /\ UNCHANGED hookVars
    \/ CmdSyncReturns /\ outcome' = NoOutcome
          /\ UNCHANGED << cacheVars, hookVars, watch, storage >>

SpecCommand == InitCommand /\ [][NextCommand]_vars

(***************************************************************************)
(* The plugin while astrbot_plugin_matrix_adapter.sticker cannot be        *)
(* imported: _init_sticker_module leaves self._storage None, at            *)
(* construction and at every _ensure_storage after it.  The platforms, the *)
(* lifecycle events and the configuration do not depend on that import.    *)
(***************************************************************************)
InitNotReady ==
    /\ catalog = << >>
    /\ cache = NoCache
    /\ clockPast = FALSE
    /\ reloadDue = FALSE
    /\ saves = 0
    /\ lastMut = NoMut
    /\ lastRes = NoRes
    /\ HookIdle
    /\ SchedulerIdle
    /\ autoSync \in BOOLEAN
    /\ syncUser \in BOOLEAN
    /\ ready = {}
    /\ storage = FALSE
    /\ outcome = NoOutcome

NextNotReady ==
    \/ \E p \in Platforms : ClientReady(p) /\ UNCHANGED << cacheVars, hookVars, watch, cmdVars >>
    \/ \E kind \in {"startup", "auto"} : OnLoaded(kind) /\ UNCHANGED << cacheVars, hookVars, watch, cmdVars >>
    \/ \E t \in 1..MaxTasks, resetOk \in BOOLEAN :
          TaskRuns(t, resetOk) /\ UNCHANGED << cacheVars, hookVars, watch, cmdVars >>
    \/ \E t \in 1..MaxTasks, ok \in BOOLEAN, rooms \in RoomLists, resetOk \in BOOLEAN :
          CallReturns(t, ok, rooms, resetOk) /\ UNCHANGED << cacheVars, hookVars, watch, cmdVars >>
    \/ \E cmd \in {"sticker", "alias"} :
          \E sub \in Subcommands(cmd) \ {"bogus"}, admin \in BOOLEAN :
             Command(cmd, sub, admin, FALSE, TRUE, FALSE) /\ UNCHANGED hookVars
    \/ \E tool \in {"sticker_search", "sticker_send"} :
          ToolCall(tool, FALSE) /\ UNCHANGED hookVars

SpecNotReady == InitNotReady /\ [][NextNotReady]_vars

(***************************************************************************)
(* Claims on the lookup cache.                                             *)
(***************************************************************************)
\* the id of the first entry, in listing order, that carries the key as its
\* normalised token or alias; NoSticker when no entry does
FirstCarrier(cat, key) ==
    IF \E i \in 1..Len(cat) : ExactHit(cat[i], key)
    THEN cat[CHOOSE i \in 1..Len(cat) :
                /\ ExactHit(cat[i], key)
                /\ \A j \in 1..(i - 1) : ~ExactHit(cat[j], key)].id
    ELSE NoSticker

\* a resolution of a non-blank token ran right after a catalog mutation
ResolvedAfterMutation ==
    lastMut.kind # "none" /\ lastRes.valid /\ Normalize(lastRes.token) # << >>

\* C10 (as amended): after a catalog mutation and the invalidation that follows
\* it, the very next resolution of a non-blank token rebuilds the cache from the
\* current catalog and returns the first entry, in listing order, that now
\* carries the key as token or alias (nothing when none does); an entry that
\* was deleted is never returned
C10_InvalidateThenResolve ==
    ResolvedAfterMutation =>
        /\ lastRes.rebuilt
        /\ lastRes.sticker = FirstCarrier(catalog, Normalize(lastRes.token))
        /\ lastMut.kind = "delete" => lastRes.sticker # lastMut.id

\* C10 witness: an alias was added, and the next resolution of that alias
\* rebuilt the cache and returned the entry the alias was added to
C10_Witness ==
    /\ ResolvedAfterMutation
    /\ lastMut.kind = "add"
    /\ Normalize(lastRes.token) = lastMut.key
    /\ lastRes.rebuilt
    /\ lastRes.sticker = lastMut.id

\* C10 as stated: a newly added token or alias resolves to its entry, a deleted
\* entry or removed alias no longer resolves to the old entry
C10_AsStated ==
    ResolvedAfterMutation =>
        /\ lastRes.rebuilt
        /\ (lastMut.kind \in {"save", "add"} /\ Normalize(lastRes.token) = lastMut.key)
              => lastRes.sticker = lastMut.id
        /\ lastMut.kind = "delete" => lastRes.sticker # lastMut.id
        /\ (lastMut.kind = "remove" /\ Normalize(lastRes.token) = lastMut.key)
              => lastRes.sticker # lastMut.id

\* a resolution of a non-blank token ran right after a catalog write of any
\* kind, a sync's included
ResolvedAfterWrite ==
    lastMut.kind # "none" /\ lastRes.valid /\ Normalize(lastRes.token) # << >>

\* C11 as stated: every catalog mutation (save, delete, alias add or remove, a
\* room or user sync that writes the catalog) clears the lookup cache before the
\* next resolution, so that resolution is served from a mapping built after the
\* mutation
C11_AsStated == ResolvedAfterWrite => lastRes.rebuilt

\* the entry a resolution of the token returns from the given cache
ResolvedFrom(c, token) == FindStickerByShortcode(c, catalog, token).sticker

ReplyText == FullText(reply)

Tokens == FindIter(ReplyText, cfg.strict)

EntryOf(m) == FirstCarrier(catalog, Normalize(m.name))

TokensResolve(toks) == \A i \in 1..Len(toks) : EntryOf(toks[i]) # NoSticker

EntriesOf(toks) == {EntryOf(toks[i]) : i \in 1..Len(toks)} \ {NoSticker}

EveryTokenResolves == \A toks \in {Tokens} : TokensResolve(toks)

DistinctEntries == UNION {EntriesOf(toks) : toks \in {Tokens}}

\* a Matrix event with full-intercept enabled
FullIntercept == cfg.gate = "open" /\ cfg.isMatrix /\ cfg.fullIntercept

\* the case C2 is about: such an event whose buffer holds a token
FullInterceptCase == FullIntercept /\ Tokens # << >>

\* the condition of C1 on the tokens: there is one, every one resolves, and
\* their entries are within the cap
OrderedSplit(toks) ==
    /\ toks # << >>
    /\ TokensResolve(toks)
    /\ cfg.max <= 0 \/ Cardinality(EntriesOf(toks)) <= cfg.max

\* the case C1 is about
OrderedSplitCase == FullIntercept /\ \A toks \in {Tokens} : OrderedSplit(toks)

\* the buffer cut at its tokens: each maximal run of non-token text as Text and
\* each token as the Attachment of its entry, left to right
RECURSIVE TextAndTokens(_, _, _, _)
TextAndTokens(text, toks, i, pos) ==
    IF i > Len(toks)
    THEN IF pos <= Len(text)
         THEN << Plain(Slice(text, pos, Len(text) + 1)) >> ELSE << >>
    ELSE (IF toks[i].start > pos
          THEN << Plain(Slice(text, pos, toks[i].start)) >> ELSE << >>)
         \o << Sticker(EntryOf(toks[i])) >>
         \o TextAndTokens(text, toks, i + 1, toks[i].stop)

SentComps == [i \in 1..Len(sent) |-> sent[i].comp]

IsBlankText(comp) == IsPlain(comp) /\ \A i \in 1..Len(comp.text) : comp.text[i] = " "

IsPrefix(a, b) == Len(a) <= Len(b) /\ a = SubSeq(b, 1, Len(a))

\* C1 (as amended): in the full-intercept case with every token resolved within
\* the cap, the split sender sends one message per segment that is not
\* whitespace-only text, in left-to-right buffer order (text runs as Text, tokens
\* as Attachments); a streaming event attempts every such segment, a
\* non-streaming event stops at its first failed send
C1_SplitSendsInOrder ==
    (pc \in {"split", "done"} /\ FullIntercept) =>
        \A text \in {ReplyText} : \A toks \in {FindIter(text, cfg.strict)} :
            OrderedSplit(toks) =>
                \A expected \in {SelectSeq(TextAndTokens(text, toks, 1, 1),
                                           LAMBDA seg : ~IsBlankText(seg))} :
                    /\ IsPrefix(SentComps, expected)
                    /\ ~cfg.streaming => \A i \in 1..(Len(sent) - 1) : sent[i].ok
                    /\ pc = "done" =>
                          \/ SentComps = expected
                          \/ ~cfg.streaming /\ sent # << >> /\ ~sent[Len(sent)].ok

\* C1 witness: "a :x:" was delivered as Text("a ") then Attachment(x)
C1_Witness ==
    /\ OrderedSplitCase
    /\ pc = "done"
    /\ sent = << [comp |-> Plain(<< "a", " " >>), ok |-> TRUE, reply |-> FALSE],
                 [comp |-> Sticker(1), ok |-> TRUE, reply |-> FALSE] >>

\* C1 as stated: exactly one message per segment, every maximal run of
\* non-token text as a Text message and every token as an Attachment message
C1_AsStated ==
    (pc = "done" /\ OrderedSplitCase) =>
        \A text \in {ReplyText} :
            SentComps = TextAndTokens(text, FindIter(text, cfg.strict), 1, 1)

\* C2: in the full-intercept case, after the handler the chain is empty and the
\* event is marked delivered exactly when every token resolves; otherwise the
\* split sender sent nothing, the chain is not cleared, the event is not marked
\* and the inline substitution ran
C2_SuppressionIffAllResolve ==
    (pc = "done" /\ FullIntercept) =>
        \A toks \in {Tokens} :
            toks # << >> =>
                IF TokensResolve(toks)
                THEN chain = << >> /\ finished /\ path = "split"
                ELSE /\ path = "inline"
                     /\ segments = << >>
                     /\ \A ids \in {EntriesOf(toks)} :
                           \A i \in 1..Len(sent) :
                               sent[i].comp \in {Sticker(id) : id \in ids}
                     /\ cfg.streaming \/ sent = << >>
                     /\ chain # << >>
                     /\ ~finished
                     /\ Len(subLog) = Len(toks)

\* C2 witness: a buffer with a resolved and an unresolved token went through
\* inline substitution, which attached the resolved one
C2_Witness ==
    /\ FullInterceptCase
    /\ pc = "done"
    /\ ~EveryTokenResolves
    /\ DistinctEntries # {}
    /\ ~cfg.streaming
    /\ \E i \in 1..Len(chain) : chain[i].type = "Sticker"
    /\ ~finished

\* a non-streaming message that went through inline substitution
InlineCase == pc = "done" /\ path = "inline" /\ cfg.gate = "open" /\ ~cfg.streaming

\* the entries among ids in the order their first token occurs in the buffer
RECURSIVE FirstUse(_, _, _, _)
FirstUse(toks, i, acc, ids) ==
    IF i > Len(toks) THEN acc
    ELSE FirstUse(toks, i + 1,
                  IF EntryOf(toks[i]) \in ids /\ ~Member(acc, EntryOf(toks[i]))
                  THEN Append(acc, EntryOf(toks[i])) ELSE acc,
                  ids)

\* the entries whose replacement component can be produced: every resolved
\* entry on Matrix, elsewhere those whose image can be built
UsableOf(toks) ==
    IF cfg.isMatrix THEN EntriesOf(toks) ELSE EntriesOf(toks) \ cfg.unbuildable

\* the ids of the chain's attachments, in chain order
AttachedIds ==
    LET atts == SelectSeq(chain, LAMBDA comp : ~IsPlain(comp))
    IN  [i \in 1..Len(atts) |-> atts[i].id]

Literal(m) == Slice(ReplyText, m.start, m.stop)

\* what the emoji pass leaves of a token's literal standing alone
LiteralAfterEmoji(m) ==
    IF cfg.emoji /\ Normalize(m.name) \in DOMAIN EmojiShortcodes
    THEN EmojiShortcodes[Normalize(m.name)] ELSE Literal(m)

\* C3 (as amended): inline, non-streaming, cap N >= 1, more than N distinct
\* entries whose component can be produced: the chain holds exactly N
\* attachments, those of the first N such entries in text order, and every later
\* such token is left as a text component of its own holding its literal, which
\* the final emoji pass replaces by the glyph when emoji conversion is enabled
\* and the name is an emoji key
C3_CapKeepsFirstN ==
    (InlineCase /\ cfg.max >= 1) =>
        \A toks \in {Tokens} : \A usable \in {UsableOf(toks)} :
            Cardinality(usable) > cfg.max =>
                \A order \in {FirstUse(toks, 1, << >>, usable)} :
                    LET kept == {order[i] : i \in 1..cfg.max}
                    IN  /\ AttachedIds = SubSeq(order, 1, cfg.max)
                        /\ \A i \in 1..Len(toks) :
                              EntryOf(toks[i]) \in usable \ kept =>
                                  \E j \in 1..Len(chain) :
                                      chain[j] = Plain(LiteralAfterEmoji(toks[i]))

\* C3 witness: ":x::y::z:" under cap 2 became x, y and the literal ":z:"
C3_Witness ==
    /\ InlineCase
    /\ cfg.max = 2
    /\ chain = << Sticker(1), Sticker(2), Plain(<< ":", "z", ":" >>) >>

\* C3 as stated: more than N tokens resolving to distinct entries: exactly N
\* attachments, those of the first N tokens, and the raw literal of every later
\* token remains in the output as text
C3_AsStated ==
    (InlineCase /\ cfg.max >= 1 /\ Cardinality(DistinctEntries) > cfg.max) =>
        LET order == FirstUse(Tokens, 1, << >>, DistinctEntries)
            kept == {order[i] : i \in 1..cfg.max}
        IN  /\ AttachedIds = SubSeq(order, 1, cfg.max)
            /\ \A i \in 1..Len(Tokens) :
                  EntryOf(Tokens[i]) \in DistinctEntries \ kept =>
                      \E j \in 1..Len(chain) :
                          IsPlain(chain[j]) /\ Contains(chain[j].text, Literal(Tokens[i]))

\* C4: in inline non-streaming substitution a token whose entry was already
\* used in the message passes the cap check whatever the number of used
\* entries: it is never made literal text and uses no cap budget
C4_RepeatsBypassCap ==
    InlineCase =>
        \A i \in 1..Len(subLog) :
            subLog[i].seen =>
                /\ subLog[i].kind = "repeat"
                /\ i < Len(subLog) => subLog[i + 1].used = subLog[i].used

\* C4 witness: a repeated token was met when the used entries had reached the cap
C4_Witness ==
    /\ InlineCase
    /\ cfg.max >= 1
    /\ \E i \in 1..Len(subLog) :
          subLog[i].seen /\ subLog[i].used = cfg.max /\ subLog[i].kind = "repeat"

(***************************************************************************)
(* Claims on the sync scheduler and terminate().                           *)
(***************************************************************************)
\* the scheduler tasks suspended inside per-session sync work
Working == {t \in 1..MaxTasks : tasks[t].pc \in WorkPcs}

\* the scheduler tasks suspended in sync_user_stickers or sync_room_stickers
Mutating == {t \in 1..MaxTasks : tasks[t].pc \in {"userSync", "roomSync"}}

\* C5: whatever the interleaving of the startup task and the loop task, at most
\* one task at a time is executing per-session sync work, and it is the task
\* that holds the shared lock; two sync calls of scheduler tasks are never in
\* flight together
C5_SyncMutualExclusion ==
    /\ Working \subseteq {holder}
    /\ Cardinality(Working) <= 1

\* C5 witness: a task of one kind is suspended in a per-room sync call while a
\* task of the other kind waits for the lock
C5_Witness ==
    \E t, u \in 1..MaxTasks :
        /\ tasks[t].pc = "roomSync"
        /\ tasks[u].pc = "lockwait"
        /\ tasks[t].kind # tasks[u].kind

\* C6 as stated: no call of sync_user_stickers or sync_room_stickers made by
\* the plugin, by a scheduler task or by "/sticker sync", runs while another
\* such call is in flight
C6_AsStated == Cardinality(Mutating) + cmdSyncs <= 1

\* C7: once the loop task has been cancelled its only step is to end: it does
\* not resume after a sleep, take the lock or go on to another sync call, and
\* no handler swallows the cancellation
C7_CancelledLoopStops ==
    [][\A t \in 1..MaxTasks :
          (tasks[t].kind = "auto" /\ tasks[t].kill # "none") =>
              \/ tasks'[t] = tasks[t]
              \/ IsDone(tasks'[t])]_vars

\* C7 witness: the loop task has been cancelled while it is suspended in a
\* per-room sync call, inside the per-room handler and under the lock
C7_Witness ==
    \E t \in 1..MaxTasks :
        /\ tasks[t].kind = "auto"
        /\ tasks[t].kill = "requested"
        /\ tasks[t].pc = "roomSync"
        /\ holder = t

\* C8 as stated: when terminate() has returned, every startup task and loop
\* task has finished and both handles are cleared
C8_AsStated ==
    term.pc = "returned" =>
        /\ startupHandle = 0
        /\ autoHandle = 0
        /\ \A t \in 1..MaxTasks : IsDone(tasks[t])

\* C9: the lock is held only by a live task that is inside sync-all, so a task
\* that was cancelled while it held the lock has released it; and a free lock
\* with tasks waiting has been handed to the first of them, unless that one is
\* itself about to leave the queue by CancelledError and pass the lock on
C9_CancelReleasesLock ==
    /\ holder # 0 => tasks[holder].pc \in WorkPcs
    /\ \A i \in 1..Len(waiters) : tasks[waiters[i]].pc = "lockwait"
    /\ (holder = 0 /\ waiters # << >>) =>
          \/ tasks[Head(waiters)].woken
          \/ tasks[Head(waiters)].kill = "requested"

\* C9 witness: the lock is free and handed to the other task, which waited for
\* it, right where a cancelled holder leaves it: terminate() awaits a task that
\* has ended while the other task was queued behind it
C9_Witness ==
    /\ term.pc \in {"awaitStartup", "awaitAuto"}
    /\ IsDone(tasks[term.task])
    /\ holder = 0
    /\ waiters # << >>
    /\ tasks[Head(waiters)].woken
    /\ tasks[Head(waiters)].kill = "none"

(***************************************************************************)
(* Claims on the two grammars and on escaped delimiters.                   *)
(***************************************************************************)
\* the match of the sequence that starts at the given offset, if any
MatchAt(matches, start) == {matches[i] : i \in {k \in 1..Len(matches) : matches[k].start = start}}

\* every strict match has a relaxed match at its start offset with its key
RelaxedFinds(strictMs, relaxedMs) ==
    \A i \in 1..Len(strictMs) :
        \E r \in MatchAt(relaxedMs, strictMs[i].start) : r.name = strictMs[i].name

\* C13: for every text buffer, every token occurrence the strict pattern finds
\* (start offset and key) is found by the relaxed pattern at the same start
\* offset with the same key
C13_RelaxedFindsStrict ==
    \A text \in {ReplyText} : RelaxedFinds(FindIter(text, TRUE), FindIter(text, FALSE))

\* C13 witness: the handler has processed, with the relaxed pattern, a reply in
\* which the strict pattern finds a token and the relaxed pattern finds that
\* token and one more
C13_Witness ==
    /\ pc = "done"
    /\ cfg.gate = "open"
    /\ ~cfg.strict
    /\ \E text \in {ReplyText} :
          /\ FindIter(text, TRUE) # << >>
          /\ Len(FindIter(text, FALSE)) > Len(FindIter(text, TRUE))

\* the character before the offset is the escape character
Escaped(text, i) == i > 1 /\ text[i - 1] = "\\"

\* the offsets at which a token could open: a delimiter followed by a token
\* character
Openings(text) ==
    {i \in 1..Len(text) : text[i] = ":" /\ i < Len(text) /\ IsTokenChar(text[i + 1])}

\* no sticker was put into the chain, sent or marked as used
NothingReplaced ==
    /\ \A i \in 1..Len(chain) : IsPlain(chain[i])
    /\ \A i \in 1..Len(sent) : IsPlain(sent[i].comp)
    /\ used = << >>

\* C14: under both grammars no match begins at a delimiter that directly follows
\* the escape character, and a reply in which every token opening is escaped
\* has no token resolved or replaced
C14_EscapedNeverMatches ==
    \A text \in {ReplyText} :
        /\ \A strict \in BOOLEAN :
              \A ms \in {FindIter(text, strict)} :
                  \A i \in 1..Len(ms) : ~Escaped(text, ms[i].start)
        /\ (\A i \in Openings(text) : Escaped(text, i)) => NothingReplaced

\* C14 witness: the handler has processed a reply holding the escaped form of
\* a token the catalog resolves, and replaced nothing
C14_Witness ==
    /\ pc = "done"
    /\ cfg.gate = "open"
    /\ ReplyText = << "\\", ":", "x", ":" >>
    /\ NothingReplaced

\* the number of escaped delimiters in a text
RECURSIVE NumEscapes(_)
NumEscapes(text) ==
    IF Len(text) < 2 THEN 0
    ELSE (IF text[1] = "\\" /\ text[2] = ":" THEN 1 ELSE 0) + NumEscapes(Tail(text))

RECURSIVE SumEscapes(_)
SumEscapes(comps) ==
    IF comps = << >> THEN 0
    ELSE (IF IsPlain(Head(comps)) THEN NumEscapes(Head(comps).text) ELSE 0)
         + SumEscapes(Tail(comps))

\* the components finally delivered: the messages of the split sender on the
\* split path, the outgoing chain otherwise
Delivered == IF path = "split" THEN SentComps ELSE chain

\* C15 as stated: whatever the path, the matches and the emoji-conversion flag,
\* the text finally delivered holds each escaped delimiter of the original
\* unescaped exactly once: it has as many escaped delimiters left as one
\* unescaping of the original leaves, and is that unescaping itself when the
\* reply has no token
C15_AsStated ==
    (pc = "done" /\ \A i \in 1..Len(sent) : sent[i].ok) =>
        \A text \in {ReplyText} :
            /\ SumEscapes(Delivered) = NumEscapes(ReplaceEscapes(text))
            /\ (Tokens = << >> /\ text # << >>) => Delivered = << Plain(ReplaceEscapes(text)) >>

(***************************************************************************)
(* Claims on the split sender and the streaming follow-ups.                *)
(***************************************************************************)
\* the entry ids of the attachments among the messages sent, in sending order
SentIds ==
    LET atts == SelectSeq(SentComps, LAMBDA comp : ~IsPlain(comp))
    IN  [i \in 1..Len(atts) |-> atts[i].id]

AllSendsOk == \A i \in 1..Len(sent) : sent[i].ok

\* C16 as stated: the split sender applies no cap; whatever the configured cap
\* and the number of distinct entries, every resolved token occurrence is sent
\* as an attachment message of its own and none as literal text
C16_AsStated ==
    (pc = "done" /\ path = "split" /\ AllSendsOk) =>
        \A toks \in {Tokens} : SentIds = [i \in 1..Len(toks) |-> EntryOf(toks[i])]

\* the positions of the segments that are not whitespace-only text, in order
RECURSIVE SendablePositions(_, _)
SendablePositions(segs, i) ==
    IF i > Len(segs) THEN << >>
    ELSE (IF IsBlankText(segs[i]) THEN << >> ELSE << i >>) \o SendablePositions(segs, i + 1)

NotBlank(segs) == SelectSeq(segs, LAMBDA seg : ~IsBlankText(seg))

\* the sends made so far are those of the first sendable segments, in order
SentFollowsSegments ==
    \A at \in {SendablePositions(segments, 1)} :
        /\ Len(sent) <= Len(at)
        /\ \A j \in 1..Len(sent) : sent[j].comp = segments[at[j]]

SplitFinished == pc = "done" /\ path = "split"

\* C17 (as amended): when the send of a segment fails, a streaming event still
\* attempts, in order, every later segment that is not whitespace-only text
\* (those are never sent), and a non-streaming event attempts no later segment
C17_FailurePolicy ==
    SplitFinished =>
        \A at \in {SendablePositions(segments, 1)} :
            /\ SentFollowsSegments
            /\ \A j \in 1..Len(sent) :
                  ~sent[j].ok =>
                      IF cfg.streaming
                      THEN SubSeq(SentComps, j + 1, Len(sent))
                              = NotBlank(SubSeq(segments, at[j] + 1, Len(segments)))
                      ELSE j = Len(sent)

\* C17 witness: a streaming split send whose first send failed went on to the
\* later segments, passing over a whitespace-only one
C17_Witness ==
    /\ SplitFinished
    /\ cfg.streaming
    /\ ~sent[1].ok
    /\ Len(sent) >= 2
    /\ Len(segments) > Len(sent)

\* C17 as stated: after a failed send a streaming event attempts every later
\* non-empty segment in order, a non-streaming event none
C17_AsStated ==
    (SplitFinished /\ SentFollowsSegments) =>
        \A at \in {SendablePositions(segments, 1)} :
            \A j \in 1..Len(sent) :
                ~sent[j].ok =>
                    IF cfg.streaming
                    THEN SubSeq(SentComps, j + 1, Len(sent))
                            = SelectSeq(SubSeq(segments, at[j] + 1, Len(segments)),
                                        LAMBDA seg : ~(IsPlain(seg) /\ seg.text = << >>))
                    ELSE j = Len(sent)

\* a is a subsequence of b: its elements occur in b in the same order
RECURSIVE IsSubsequence(_, _)
IsSubsequence(a, b) ==
    IF a = << >> THEN TRUE
    ELSE IF b = << >> THEN FALSE
    ELSE IF Head(a) = Head(b) THEN IsSubsequence(Tail(a), Tail(b))
    ELSE IsSubsequence(a, Tail(b))

\* C18: the split sender's sends for one message are strictly sequential: at
\* most one send is in flight, the loop calls the next send only when no send
\* is in flight (the previous one has returned or failed), and the sequence
\* delivered is a subsequence of the segment list, in order
C18_SendsSequential ==
    path = "split" =>
        /\ Cardinality(inFlight) <= 1
        /\ pc = "split" => inFlight = {}
        /\ inFlight # {} => pc = "sending" /\ inFlight = {segPos}
        /\ IsSubsequence(SentComps, segments)

\* C18 witness: the second send is in flight, and was issued after the first
\* send had failed
C18_Witness ==
    /\ path = "split"
    /\ pc = "sending"
    /\ Len(sent) = 1
    /\ ~sent[1].ok
    /\ inFlight = {segPos}
    /\ segPos > 1

\* the chain the handler works on, and its text
EffectiveChain == WithCachedText(reply, cfg)

EffectiveText == FullText(EffectiveChain)

\* a streaming finish on Matrix that the split sender did not take over
StreamingFollowCase ==
    /\ cfg.gate = "open" /\ cfg.isMatrix /\ cfg.streaming
    /\ path = "inline"
    /\ pc \in {"follow", "done"}

\* the first entries of the order that the cap admits
WithinCap(order) ==
    IF cfg.max <= 0 \/ Len(order) <= cfg.max THEN order ELSE SubSeq(order, 1, cfg.max)

\* C19: on a streaming finish on Matrix that full-intercept did not take over,
\* the sticker substitution does not rewrite the outgoing chain (only the emoji
\* pass acts on it), and each distinct resolved entry within the cap is sent
\* exactly once as a follow-up message of its own, in order of first occurrence
\* in the text, with the reply reference when the event has one; a failed
\* follow-up does not stop the later ones
C19_StreamingFollowUps ==
    StreamingFollowCase =>
        \A toks \in {FindIter(EffectiveText, cfg.strict)} :
            \A expected \in {WithinCap(FirstUse(toks, 1, << >>, EntriesOf(toks)))} :
                /\ IsPrefix(SentIds, expected)
                /\ \A i \in 1..Len(sent) :
                      ~IsPlain(sent[i].comp) /\ sent[i].reply = cfg.replyId
                /\ pc = "done" =>
                      /\ SentIds = expected
                      /\ chain = ConvertEmojiShortcodesInResult(EffectiveChain, cfg.emoji,
                                                                cfg.strict)

\* C19 witness: ":x::y::z:" under cap 2 on an event with a reply id: x and y
\* were sent as follow-ups carrying the reply reference, y after x had failed
C19_Witness ==
    /\ StreamingFollowCase
    /\ pc = "done"
    /\ cfg.max = 2
    /\ cfg.replyId
    /\ EffectiveText = << ":", "x", ":", ":", "y", ":", ":", "z", ":" >>
    /\ SentIds = << 1, 2 >>
    /\ ~sent[1].ok
    /\ sent[2].reply
    /\ chain = reply

\* the handler ran past its gates and has returned
Reconstructed == pc = "done" /\ cfg.gate = "open" /\ reply # << >>

\* C20 (as amended): when the chain has no text and no cached completion text
\* stands in for it, or the text has no token match, the sticker
\* reconstruction leaves the chain as it was (only the emoji pass acts on it)
\* and sends no message; a chain without text is replaced by the cached
\* completion text when there is one, and that text is reconstructed instead
C20_NoOpWithoutTokens ==
    Reconstructed =>
        /\ (EffectiveText = << >> \/ FindIter(EffectiveText, cfg.strict) = << >>) =>
              /\ chain = ConvertEmojiShortcodesInResult(EffectiveChain, cfg.emoji, cfg.strict)
              /\ sent = << >>
              /\ used = << >>
        /\ (FullText(reply) = << >> /\ cfg.cached = << >>) => chain = reply

\* C20 witness: a chain of one empty Plain, with no cached text, came back as it
\* was and nothing was sent
C20_Witness ==
    /\ Reconstructed
    /\ reply = << Plain(<< >>) >>
    /\ cfg.cached = << >>
    /\ cfg.fullIntercept
    /\ chain = reply
    /\ sent = << >>

\* C20 as stated: when the concatenation of the chain's text is empty, or holds
\* no token match, the chain is left exactly as it was and no message is sent
C20_AsStated ==
    ( /\ Reconstructed
      /\ ~cfg.emoji
      /\ FullText(reply) = << >> \/ FindIter(FullText(reply), cfg.strict) = << >> )
    => (chain = reply /\ sent = << >>)

(***************************************************************************)
(* Claims on usage statistics.                                             *)
(***************************************************************************)
\* C21 as stated: an entry's usage is bumped only after a send of that entry
\* has succeeded: every _mark_sticker_used call made so far is for an entry of
\* which a send has already succeeded
C21_AsStated ==
    \A i \in 1..Len(used) :
        \E j \in 1..Len(sent) : sent[j].ok /\ sent[j].comp = Sticker(used[i])

(* Claims on the startup pass and the periodic loop. *)
\* the task is inside _sync_all_platform_stickers_once
InPass(task) == task.pc \in WorkPcs \cup {"lockwait"}

\* a step of the startup pass t that is not cancelled changes where it stands
StartupMoves(t) ==
    /\ tasks[t].kind = "startup"
    /\ tasks[t].kill = "none"
    /\ tasks'[t].kill # "requested"
    /\ << tasks[t].pc, tasks[t].polls >> # << tasks'[t].pc, tasks'[t].polls >>

\* C22: a startup pass that is not cancelled sleeps one more second only while
\* no session is ready and fewer than 30 polls have failed, otherwise it
\* enters sync-all; once inside sync-all it never polls, sleeps or enters
\* sync-all again, and it ends when sync-all returns
C22_StartupPassOnce ==
    [][\A t \in 1..MaxTasks :
          StartupMoves(t) =>
              /\ tasks'[t].polls <= StartupPolls
              /\ tasks[t].pc \in {"new", "sleep1"} =>
                    IF ready = {} /\ tasks[t].polls < StartupPolls
                    THEN tasks'[t].pc = "sleep1" /\ tasks'[t].polls = tasks[t].polls + 1
                    ELSE InPass(tasks'[t]) \/ IsDone(tasks'[t])
              /\ InPass(tasks[t]) =>
                    /\ tasks'[t].pc \in WorkPcs \/ IsDone(tasks'[t])
                    /\ tasks[t].pc \in WorkPcs => holder = t
              /\ tasks[t].pc \in {"new", "sleep1"} \cup WorkPcs \cup {"lockwait"}]_vars

\* the 30th poll of a startup pass has failed: its next step enters sync-all
C22_Witness ==
    \E t \in 1..MaxTasks :
        /\ tasks[t].kind = "startup"
        /\ tasks[t].kill = "none"
        /\ tasks[t].pc = "sleep1"
        /\ tasks[t].polls = StartupPolls
        /\ ready = {}

\* a loop task that is running and has not been cancelled
UncancelledLoop(t) ==
    tasks[t].kind = "auto" /\ ~IsDone(tasks[t]) /\ tasks[t].kill = "none"

\* C23: a periodic loop that has not been cancelled never ends, whatever its
\* sync-all raised, and a loop that is never cancelled calls sync-all again
\* and again
C23_LoopSurvives ==
    /\ [][\A t \in 1..MaxTasks :
             UncancelledLoop(t) /\ tasks'[t].kill # "requested" => UncancelledLoop(t)']_vars
    /\ \A t \in 1..MaxTasks : <>[]UncancelledLoop(t) => []<>(watch.entered = t)

\* a loop task calls sync-all after an iteration of it ended with an error
C23_Witness ==
    \E t \in 1..MaxTasks :
        UncancelledLoop(t) /\ watch.raised = t /\ watch.entered = t

(* Claims on what a sync pass calls. *)
\* the position in the last room listing up to which the room loop has come
ListedUpTo ==
    LET inRoom == {t \in 1..MaxTasks : tasks[t].pc = "roomSync"}
    IN  IF inRoom = {} THEN Len(watch.list)
        ELSE Len(watch.list) - Len(tasks[CHOOSE t \in inRoom : TRUE].rooms)

\* C24: sync_room_stickers has been called for exactly the non-blank rooms of
\* the listing that the room loop has come to, whatever the earlier calls
\* raised, and once the listing is done with for all of its non-blank rooms;
\* a pass that has ended has synced every session that was ready when it
\* took the lock, whatever listing raised
C24_FailuresIsolated ==
    /\ watch.tried = {i \in 1..ListedUpTo : watch.list[i]}
    /\ watch.over => watch.due \subseteq watch.visited

\* a pass has ended in which the listing of one session raised and a later
\* session was synced, and in whose last listing the sync of one room raised
\* and a later room was synced
C24_Witness ==
    /\ watch.over
    /\ \E p \in watch.unlisted, q \in watch.visited : p < q
    /\ \E i \in watch.badRooms, j \in watch.tried : i < j

\* task t begins the sync of session p in this step
StartsSync(t, p) ==
    /\ tasks'[t].plat = p
    /\ tasks'[t].pc \in {"userSync", "rooms"}
    /\ tasks[t].pc # "userSync"
    /\ << tasks[t].pc, tasks[t].plat >> # << tasks'[t].pc, tasks'[t].plat >>

\* C25: a pass that comes to a ready session calls reset_available exactly
\* when no earlier call of it for that session has returned, and
\* sync_user_stickers exactly when user-level sync is enabled and no earlier
\* call of it for that session has returned; no other step calls
\* reset_available, only ready sessions are synced, and a session that is not
\* ready keeps its bookkeeping
C25_OneTimeSteps ==
    [][\A p \in Sessions :
          /\ \A t \in 1..MaxTasks :
                StartsSync(t, p) =>
                    /\ p \in ready
                    /\ watch'.reset.plat = p <=> p \notin watch.okReset
                    /\ tasks'[t].pc = "userSync" <=> (syncUser /\ p \notin watch.okUser)
          /\ watch'.reset.plat = p => \E t \in 1..MaxTasks : StartsSync(t, p)
          /\ p \notin ready =>
                /\ p \in availReset' <=> p \in availReset
                /\ p \in userSynced' <=> p \in userSynced]_vars

\* reset_available has just returned for a session for which an earlier call
\* of it had raised, and another session is past both of its one-time steps
C25_Witness ==
    /\ watch.reset.ok
    /\ watch.reset.plat \in watch.badReset
    /\ \E q \in watch.okReset \cap watch.okUser : q # watch.reset.plat

(***************************************************************************)
(* Claims on the commands.                                                 *)
(***************************************************************************)
\* the last step handled a mutating subcommand from a sender who is not an
\* administrator, or whose admin check raised
NonAdminMutating(o) ==
    /\ o.cmd \in {"sticker", "alias"}
    /\ o.sub \in MutatingSubcommands(o.cmd)
    /\ ~o.admin \/ o.raises

\* C27 (as stated): a mutating subcommand from a non-administrator is
\* answered with the permission-denied result and writes nothing
C27_AsStated ==
    NonAdminMutating(outcome) => outcome.reply = "denied" /\ outcome.writes = {}

\* C27 (as amended): a mutating subcommand from a non-administrator, or from a
\* sender whose admin check raises, is answered with the permission-denied
\* result when the catalog store is initialised and with the not-ready result
\* when it is not; either way the step changes no catalog entry, writes no
\* room state and no config, and starts no room sync
C27_AdminOnly ==
    [][NonAdminMutating(outcome') =>
          /\ outcome'.reply = IF outcome'.ready THEN "denied" ELSE "notReady"
          /\ outcome'.writes = {}
          /\ catalog' = catalog
          /\ saves' = saves
          /\ cmdSyncs' = cmdSyncs]_vars

\* C27 witness: with the store initialised and a sticker in the catalog, a
\* sender whose admin check raised asked for a delete and was denied
C27_Witness ==
    /\ outcome.cmd = "sticker" /\ outcome.sub = "delete"
    /\ outcome.raises
    /\ outcome.ready
    /\ outcome.reply = "denied"
    /\ catalog # << >>

\* a task of the scheduler is suspended inside a call of the platform's
\* syncer or client
InSyncCall == \E t \in 1..MaxTasks : tasks[t].pc \in WorkPcs

\* C26 (as stated): while the catalog store is not initialised no sync
\* operation reaches the platform (no availability reset, no user sync, no
\* joined-rooms or room-sync call), nothing is written, and the last command
\* or tool call was answered with the not-ready result
C26_AsStated ==
    ~storage =>
        /\ ~InSyncCall
        /\ availReset = {} /\ userSynced = {}
        /\ cmdSyncs = 0
        /\ catalog = << >>
        /\ outcome.writes = {}
        /\ outcome.reply \in {"none", "notReady"}

(***************************************************************************)
(* Claims on unavailable media.                                            *)
(***************************************************************************)
\* the handler ran past its gates and has returned
MediaReturned == pc = "done" /\ cfg.gate = "open" /\ reply # << >>

\* the messages the handler set out to send on its own: the sendable segments
\* of the split sender, or the follow-up stickers of a streaming reply
PlannedSends ==
    IF path = "split" THEN NotBlank(segments)
    ELSE [i \in 1..Len(followUps) |-> Sticker(followUps[i])]

\* a send failed, and every send that failed was that of an attachment
AttachmentSendFailed ==
    /\ \E j \in 1..Len(sent) : ~sent[j].ok
    /\ \A j \in 1..Len(sent) : ~sent[j].ok => ~IsPlain(sent[j].comp)

\* the planned sends up to the first that failed
UpToFirstFailure ==
    LET j == CHOOSE k \in 1..Len(sent) :
                ~sent[k].ok /\ \A i \in 1..(k - 1) : sent[i].ok
    IN  SubSeq(PlannedSends, 1, j)

\* the catalog without the entries whose image cannot be built
WithoutUnbuildable(cat, c) == SelectSeq(cat, LAMBDA e : e.id \notin c.unbuildable)

\* the chain the handler would return for this reply if the entries whose
\* image cannot be built were not in the catalog at all
ChainWithoutUnbuildable ==
    LET plan == HookPlan(reply, [cfg EXCEPT !.unbuildable = {}], NoCache,
                         WithoutUnbuildable(catalog, cfg))
    IN  EmojiPass(IF plan.sub.modified THEN plan.sub.chain ELSE reply)

\* C28 (as stated): when sends of attachments fail, every other message the
\* handler set out to send is still attempted
C28_AsStated ==
    (MediaReturned /\ AttachmentSendFailed) => SentComps = PlannedSends

\* C28 (as amended): on a platform other than Matrix a token whose image
\* cannot be built is left as it stands, and the rest of the reply comes out
\* as if that entry did not exist; when the send of an attachment fails, every
\* other message the handler set out to send is still attempted, except in the
\* split sender on a non-streaming event, where the sends end at the failure
C28_MediaNotFatal ==
    MediaReturned =>
        /\ ~cfg.isMatrix => chain = ChainWithoutUnbuildable /\ sent = << >>
        /\ AttachmentSendFailed =>
              SentComps = IF path = "split" /\ ~cfg.streaming
                          THEN UpToFirstFailure ELSE PlannedSends

\* C28 witness: ":y::x:" on another platform where the image of y cannot be
\* built: the reply came out as the text ":y:" followed by the image of x
C28_Witness ==
    /\ MediaReturned
    /\ ~cfg.isMatrix /\ cfg.unbuildable = {2} /\ cfg.max = 1
    /\ FullText(reply) = << ":", "y", ":", ":", "x", ":" >>
    /\ chain = << Plain(<< ":", "y", ":" >>), Image(1) >>

(***************************************************************************)
(* Claims on stale cache ids and on the rebuild.                           *)
(***************************************************************************)
\* the catalog entry with the given id carries the key as token or alias
Carries(cat, id, key) == \E i \in 1..Len(cat) : cat[i].id = id /\ ExactHit(cat[i], key)

\* C29: a resolution that finds the cached id of its key without an entry
\* drops that mapping and searches the catalog; an entry it returns from the
\* search carries the key as its normalised token or alias and is written back
\* under the key, and when the search returns nothing the key is left unmapped
C29_StaleIdsHeal ==
    lastRes.valid =>
        \A key \in {Normalize(lastRes.token)} :
            /\ lastRes.via = "fallback" =>
                  /\ Carries(catalog, lastRes.sticker, key)
                  /\ DictGet(cache.map, key) = lastRes.sticker
            /\ lastRes.stale =>
                  /\ lastMut.kind = "drop" => DictGet(cache.map, key) # lastMut.id
                  /\ lastRes.via # "cache"
                  /\ lastRes.via = "none" => key \notin DOMAIN cache.map

\* C29 witness: entry 2 (x) was dropped while the cache still mapped x to it;
\* the next resolution of x, without a rebuild, returned entry 3 (alias X),
\* passing over xy, and the cache now maps x to 3
C29_Witness ==
    /\ lastMut = [kind |-> "drop", id |-> 2, key |-> << >>]
    /\ lastRes.valid /\ lastRes.stale /\ ~lastRes.rebuilt
    /\ lastRes.token = Str("x")
    /\ lastRes.sticker = 3
    /\ cache.map[Str("x")] = 3
    /\ catalog[1].body = << "x", "y" >>

\* the non-empty normalised tokens and aliases of the catalog's entries
CatalogKeys(cat) ==
    {key \in UNION {{Normalize(cat[i].body)}
                       \cup {Normalize(cat[i].tags[j]) : j \in 1..Len(cat[i].tags)} :
                    i \in 1..Len(cat)} : key # << >>}

C31_KeysWellFormed ==
    cache.valid =>
        \A key \in DOMAIN cache.map :
            /\ key # << >>
            /\ Strip(key) = key
            /\ Lower(key) = key
            /\ cache.map[key] # NoSticker

\* C31 witness: the catalog holds a blank body, a blank alias and the padded
\* upper-case alias " X"; the cache, after a stale id of x was removed and x
\* was written back from the search, maps only the keys x and w
C31_Witness ==
    /\ cache.valid
    /\ lastRes.valid /\ lastRes.stale /\ lastRes.via = "fallback"
    /\ \E i \in 1..Len(catalog) : Member(catalog[i].tags, Str(" "))
    /\ DOMAIN cache.map = {Str("x"), Str("w")}

(***************************************************************************)
(* Claims on the staleness reload.                                         *)
(***************************************************************************)
\* a reload is due at the next storage access
ReloadIsDue == cfg.intervalZero \/ reloadDue

\* the step is a storage access that resolves a token
AccessStep == lastRes'.valid

\* the access found the cache dropped and, for a non-blank token, rebuilt it
\* from the catalog as it is now and answered from that
ClearedAndRebuilt ==
    \A key \in {Normalize(lastRes'.token)} :
        IF key = << >> THEN ~cache'.valid
        ELSE /\ lastRes'.rebuilt
             /\ lastRes'.sticker = FirstCarrier(catalog', key)
             /\ DOMAIN cache'.map = CatalogKeys(catalog')

\* the access kept the cache it found: no rebuild, no key but its own touched
CacheKept ==
    cache.valid =>
          /\ ~lastRes'.rebuilt
          /\ cache'.valid
          /\ \A key \in DOMAIN cache.map \ {Normalize(lastRes'.token)} :
                key \in DOMAIN cache'.map /\ cache'.map[key] = cache.map[key]

\* C32 (as stated): an access made when a reload is due reloads the index and
\* clears the cache, so that it answers from the catalog as it is now; an access
\* made within the interval does not reload and keeps the cache
C32_AsStated ==
    [][AccessStep =>
          IF ReloadIsDue THEN lastMut'.kind = "reload" /\ ClearedAndRebuilt
          ELSE lastMut'.kind # "reload" /\ CacheKept]_vars

\* C32 (as amended): an access made when a reload is due calls reload_index;
\* when that call returns the cache is cleared, the access answers from the
\* catalog as it is now and the next reload is due one interval later (at once
\* when the interval is <= 0); when it raises, the cache is kept and the
\* reload stays due; an access made within the interval does not reload and
\* keeps the cache
C32_StalenessReload ==
    [][AccessStep =>
          /\ lastMut'.kind \in {"reload", "reloadFailed"} <=> ReloadIsDue
          /\ lastMut'.kind = "reload" =>
                ClearedAndRebuilt /\ reloadDue' = cfg.intervalZero
          /\ lastMut'.kind # "reload" => CacheKept /\ reloadDue' = reloadDue]_vars

\* C32 witness: entry 2 (x) left the store while the cache mapped x to it; the
\* interval elapsed, and the next resolution of x reloaded, rebuilt the cache
\* and answered with entry 3, without any stale id met
C32_Witness ==
    /\ lastMut.kind = "reload"
    /\ lastRes.valid /\ lastRes.rebuilt /\ ~lastRes.stale
    /\ lastRes.token = Str("x") /\ lastRes.sticker = 3
    /\ ~cfg.intervalZero /\ ~reloadDue
    /\ \A i \in 1..Len(catalog) : catalog[i].id # 2

(***************************************************************************)
(* Claims on the awaits of the inline loop.                                *)
(***************************************************************************)
\* the inline loop is suspended between two of its matches
MidWalk == pc = "await"

\* the step is taken by a task other than the handler of the message
OtherTaskStep == walk' = walk /\ pc' = pc

\* C33 (as stated): no task other than the handler takes a step between the
\* start and the end of the inline loop over one message
C33_AsStated == [][MidWalk => ~OtherTaskStep]_vars

\* C33 (as amended): on Matrix the inline loop is never suspended; on another
\* platform it is suspended only at the image build of a resolved match whose
\* sticker has to be downloaded, and only there do other tasks take a step
\* between the start and the end of the loop
C33_NoYieldOnMatrix ==
    [][MidWalk =>
          /\ ~cfg.isMatrix
          /\ \A m \in {FindIter(chain[walk.ci].text, cfg.strict)[walk.mi]} :
                DictGet(walk.map, Normalize(m.name)) \in cfg.remote]_vars

\* C33 witness: a Matrix reply with two resolved tokens whose stickers have no
\* local file went through the whole loop in the step that began it
C33_Witness ==
    /\ cfg.isMatrix
    /\ pc = "done" /\ path = "inline"
    /\ walk # NoWalk /\ walk.at = "end"
    /\ Len(walk.st.found) = 2
    /\ \A i \in 1..2 : walk.st.found[i] \in cfg.remote
    /\ lastMut.kind = "none"
    /\ Len(catalog) = 3

(***************************************************************************)
(* Claims on the emoji pass of the handler.                                *)
(***************************************************************************)
\* the number of emoji glyphs in a text
RECURSIVE NumGlyphs(_)
NumGlyphs(text) ==
    IF text = << >> THEN 0
    ELSE (IF Head(text) = "#" THEN 1 ELSE 0) + NumGlyphs(Tail(text))

\* the tokens of a text that name an emoji
EmojiTokens(text) ==
    SelectSeq(FindIter(text, cfg.strict),
              LAMBDA m : Normalize(m.name) \in DOMAIN EmojiShortcodes)

\* the tokens of a text that name an emoji and no entry of the catalog
EmojiOnlyTokens(text) ==
    SelectSeq(EmojiTokens(text), LAMBDA m : EntryOf(m) = NoSticker)

\* C34: when the handler has returned from a non-empty chain, whatever branch
\* it took, the text segments left in the outgoing chain have been through the
\* emoji pass exactly when the pass is enabled: enabled, no emoji shortcode is
\* left in them and every shortcode of the reply that names an emoji and no
\* sticker has become its glyph; disabled, they hold no glyph and those
\* shortcodes are still in them
C34_EmojiPassOnEveryPath ==
    (pc = "done" /\ reply # << >>) =>
        /\ \A i \in 1..Len(chain) :
              IsPlain(chain[i]) =>
                 IF cfg.emoji THEN EmojiTokens(chain[i].text) = << >>
                 ELSE NumGlyphs(chain[i].text) = 0
        /\ path # "split" =>
              IF cfg.emoji
              THEN NumGlyphs(FullText(chain)) >= Len(EmojiOnlyTokens(ReplyText))
              ELSE Len(EmojiOnlyTokens(FullText(chain))) = Len(EmojiOnlyTokens(ReplyText))

\* C34 witness: a streaming Matrix reply whose token x was sent as a follow-up
\* and whose emoji shortcode w is a glyph in the chain the handler left
C34_Witness ==
    /\ pc = "done" /\ path = "inline"
    /\ cfg.isMatrix /\ cfg.streaming /\ cfg.emoji
    /\ Len(sent) = 1 /\ sent[1].ok /\ sent[1].comp = Sticker(1)
    /\ Len(EmojiOnlyTokens(ReplyText)) = 1
    /\ NumGlyphs(FullText(chain)) = 1

(***************************************************************************)
(* Claims on the segmentation of the reconstructed message.                *)
(***************************************************************************)
\* the sequence the reconstruction produced: the split sender's segment list on
\* the split path, the chain the handler left otherwise
ReconstructedSegments == IF path = "split" THEN segments ELSE chain

\* C35 (as stated): the reply arrived as one text segment, so the sequence
\* reconstructed from it has no two Text segments next to each other, and it
\* has no empty Text segment
C35_AsStated ==
    (pc = "done" /\ Len(reply) = 1) =>
        \A out \in {ReconstructedSegments} :
            /\ \A i \in 1..(Len(out) - 1) : ~(IsPlain(out[i]) /\ IsPlain(out[i + 1]))
            /\ \A i \in 1..Len(out) : IsPlain(out[i]) => out[i].text # << >>

(***************************************************************************)
(* Claims on the resolution snapshot of a pass.                            *)
(***************************************************************************)
\* the step is the handler's entry: the batch resolution and the loop up to
\* its first suspension
PassBegins == pc = "start" /\ pc' # "start"

\* C36: the handler's first step resolves each distinct normalized token of
\* the reply once, against the catalog as it is then; the map it got does not
\* change while the pass is suspended, whatever commands and other handlers do
\* to the catalog and the cache meanwhile, every match of the loop takes its
\* entry from that map, and two occurrences of one token take the same entry
C36_OneSnapshot ==
    [][/\ PassBegins =>
            /\ DOMAIN walk'.map = {Normalize(m.name) :
                                     m \in {FindIter(ReplyText, cfg.strict)[i] :
                                              i \in 1..Len(FindIter(ReplyText, cfg.strict))}}
            /\ \A key \in DOMAIN walk'.map : walk'.map[key] = FirstCarrier(catalog, key)
       /\ walk # NoWalk => walk'.map = walk.map
       /\ walk' # NoWalk =>
            /\ \A k \in 1..Len(subLog') :
                  subLog'[k].id = DictGet(walk'.map, Normalize(subLog'[k].name))
            /\ \A j, k \in 1..Len(subLog') :
                  Normalize(subLog'[j].name) = Normalize(subLog'[k].name)
                     => subLog'[j].id = subLog'[k].id]_vars

\* C36 witness: a reply with the token x twice, on a platform other than
\* Matrix; while the loop awaited the image of entry 1, entry 1 was deleted and
\* x became an alias of entry 3; both occurrences were still handled as entry 1
C36_Witness ==
    /\ pc = "done" /\ path = "inline" /\ ~cfg.isMatrix
    /\ Len(subLog) = 2
    /\ \A k \in 1..2 : subLog[k].name = Str("x") /\ subLog[k].id = 1
    /\ subLog[1].kind = "attach" /\ subLog[2].kind = "repeat"
    /\ FirstCarrier(catalog, Str("x")) = 3

(***************************************************************************)
(* Claims on the number of scheduler tasks.                                *)
(***************************************************************************)
\* the tasks of a kind that have not finished
Unfinished(kind) == {t \in 1..MaxTasks : tasks[t].kind = kind /\ ~IsDone(tasks[t])}

\* task t ends in this step, so its done callback runs
Ends(t) == ~IsDone(tasks[t]) /\ IsDone(tasks'[t])

\* C37 (as stated): at any time at most one startup task and at most one loop
\* task have not finished, and the done callback of a task that its handle no
\* longer names leaves the handles as they are
C37_AsStated ==
    [][/\ \A kind \in {"startup", "auto"} : Cardinality(Unfinished(kind)') <= 1
       /\ \A t \in 1..MaxTasks :
             (Ends(t) /\ startupHandle # t /\ autoHandle # t) =>
                 startupHandle' = startupHandle /\ autoHandle' = autoHandle]_vars

(***************************************************************************)
(* Claims on the inline substitution of a reply of several segments.       *)
(***************************************************************************)
\* the tokens of the reply's text segments, segment by segment, as the inline
\* loop meets them
RECURSIVE SegmentTokens(_)
SegmentTokens(comps) ==
    IF comps = << >> THEN << >>
    ELSE (IF IsPlain(Head(comps)) THEN FindIter(Head(comps).text, cfg.strict) ELSE << >>)
         \o SegmentTokens(Tail(comps))

\* the names the pass has resolved: those of the tokens of the whole text
BatchKeys ==
    {Normalize(FindIter(ReplyText, cfg.strict)[i].name) :
        i \in 1..Len(FindIter(ReplyText, cfg.strict))}

\* the entry the pass holds for a token of a segment
PassEntry(m) ==
    IF Normalize(m.name) \in BatchKeys THEN FirstCarrier(catalog, Normalize(m.name))
    ELSE NoSticker

\* the entries of the reply's tokens, each once, in the order of their first
\* occurrence
RECURSIVE FirstOccurrences(_, _)
FirstOccurrences(toks, acc) ==
    IF toks = << >> THEN acc
    ELSE FirstOccurrences(Tail(toks),
                          IF PassEntry(Head(toks)) = NoSticker
                             \/ Member(acc, PassEntry(Head(toks)))
                          THEN acc ELSE Append(acc, PassEntry(Head(toks))))

\* the entry ids of the attachments the pass put into the chain, in order
SplicedIds(comps) ==
    LET atts == SelectSeq(comps, LAMBDA comp : comp.id # NoSticker)
    IN  [i \in 1..Len(atts) |-> atts[i].id]

NoRepeats(seq) == \A i, j \in 1..Len(seq) : i # j => seq[i] # seq[j]

\* the handler took the inline loop on a reply that is not streamed and has
\* returned
InlineDone == pc = "done" /\ path = "inline" /\ ~cfg.streaming

\* C38: in the chain the non-streaming inline substitution leaves, no entry id
\* is attached twice, however often its token or its aliases occur; the
\* attachments follow the order in which their entries first occur in the
\* reply; and the usage of an entry is touched at most once, and only for an
\* entry that was attached
C38_DedupByEntryId ==
    InlineDone =>
        \A atts \in {SplicedIds(chain)} :
            /\ NoRepeats(atts)
            /\ IsSubsequence(atts, FirstOccurrences(SegmentTokens(reply), << >>))
            /\ NoRepeats(used)
            /\ used = atts

\* C38 witness: ':x::y:' followed by a second segment ':x:', y an alias of
\* entry x: one attachment of entry 1 in the chain, one usage mark
C38_Witness ==
    /\ InlineDone
    /\ reply = << Plain(<< ":", "x", ":", ":", "y", ":" >>), Plain(<< ":", "x", ":" >>) >>
    /\ SplicedIds(chain) = << 1 >>
    /\ used = << 1 >>
    /\ Len(subLog) = 3

\* the text and the segments that are not text of a sequence of components, in
\* order: the characters of its text segments, "@" for a segment that is not
\* text, nothing for an attachment of a catalog entry
RECURSIVE Skeleton(_)
Skeleton(comps) ==
    IF comps = << >> THEN << >>
    ELSE (IF IsPlain(Head(comps)) THEN Head(comps).text
          ELSE IF Head(comps).id = NoSticker THEN << "@" >> ELSE << >>)
         \o Skeleton(Tail(comps))

\* a token of the reply that resolved within the cap, ids being the entries
\* that came before it
TakenWithinCap(m, ids) ==
    /\ PassEntry(m) # NoSticker
    /\ cfg.max <= 0 \/ Member(ids, PassEntry(m)) \/ Len(ids) < cfg.max

\* the same, for a token whose attachment component can be produced
TakenAndBuilt(m, ids) ==
    /\ TakenWithinCap(m, ids)
    /\ cfg.isMatrix \/ PassEntry(m) \notin cfg.unbuildable

\* a text without the spans of its tokens that are taken; pos: the offset after
\* the last token looked at
RECURSIVE WithoutSpans(_, _, _, _, _)
WithoutSpans(text, toks, pos, ids, built) ==
    IF toks = << >> THEN [text |-> Slice(text, pos, Len(text) + 1), ids |-> ids]
    ELSE LET m == Head(toks)
             taken == IF built THEN TakenAndBuilt(m, ids) ELSE TakenWithinCap(m, ids)
             rest == WithoutSpans(text, Tail(toks), m.stop,
                                  IF taken /\ ~Member(ids, PassEntry(m))
                                  THEN Append(ids, PassEntry(m)) ELSE ids,
                                  built)
         IN  [text |-> Slice(text, pos, m.start)
                       \o (IF taken THEN << >> ELSE Slice(text, m.start, m.stop))
                       \o rest.text,
              ids |-> rest.ids]

\* the reply without the spans of its taken tokens, segment by segment
RECURSIVE Conserved(_, _, _)
Conserved(comps, ids, built) ==
    IF comps = << >> THEN << >>
    ELSE IF IsPlain(Head(comps))
    THEN LET cut == WithoutSpans(Head(comps).text, FindIter(Head(comps).text, cfg.strict),
                                 1, ids, built)
         IN  << Plain(cut.text) >> \o Conserved(Tail(comps), cut.ids, built)
    ELSE << Head(comps) >> \o Conserved(Tail(comps), ids, built)

\* the handler has returned with the chain the inline loop built or left
SubstitutedInline == pc = "done" /\ path = "inline" /\ ~(cfg.isMatrix /\ cfg.streaming)

\* C39 (as stated): the text of the chain the inline substitution leaves is the
\* reply's text without the spans of the tokens that resolved within the cap,
\* with every segment that is not text at its place between the same text
C39_AsStated ==
    SubstitutedInline => Skeleton(chain) = Skeleton(Conserved(reply, << >>, FALSE))

\* C39 (as amended): the same, where the spans removed are those of the tokens
\* that resolved within the cap and whose attachment component could be
\* produced; a token whose image cannot be built keeps its raw text like an
\* unresolved one and does not count towards the cap
C39_ConservesText ==
    SubstitutedInline => Skeleton(chain) = Skeleton(Conserved(reply, << >>, TRUE))

\* C39 witness: on a platform other than Matrix, the image of z unbuildable:
\* ':x: :z:' followed by a segment that is not text; the chain attaches entry
\* 1, keeps ' :z:' as text and the other segment after it
C39_Witness ==
    /\ SubstitutedInline
    /\ ~cfg.isMatrix /\ cfg.unbuildable = {2}
    /\ reply = << Plain(<< ":", "x", ":", " ", ":", "z", ":" >>), Image(NoSticker) >>
    /\ chain = << Image(1), Plain(<< " ", ":", "z", ":" >>), Image(NoSticker) >>

(***************************************************************************)
(* Claims on what the full-intercept path delivers.                        *)
(***************************************************************************)
\* the text segments among some components
TextSegments(comps) == SelectSeq(comps, LAMBDA comp : IsPlain(comp))

\* C40 (as stated): when the full-intercept path has cleared the chain and
\* marked the event, every segment the split sender built from the buffer has
\* been handed to a send, text and attachments alike, in order, and so has
\* every segment of the reply that is not text
C40_AsStated ==
    (pc = "done" /\ path = "split") =>
        /\ SentComps = segments
        /\ Flatten([i \in 1..Len(TextSegments(SentComps)) |-> TextSegments(SentComps)[i].text])
              = Flatten([i \in 1..Len(TextSegments(segments)) |-> TextSegments(segments)[i].text])
        /\ \A i \in 1..Len(reply) :
              ~IsPlain(reply[i]) => \E j \in 1..Len(sent) : sent[j].comp = reply[i]

=============================================================================
